---- MODULE Spec2Model ----
(***************************************************************************)
(* A model of scripts/scan_blocks.py: the block scanner that fetches       *)
(* blocks from a node, classifies every transaction, stores the outcome in *)
(* SQLite tables and checkpoints the processed heights.                    *)
(*                                                                         *)
(* Conventions                                                             *)
(*   - Python None / SQL NULL of a scalar is the empty tuple <<>>, a       *)
(*     present scalar v is <<v>> (Some(v)); an absent address or txid is   *)
(*     the empty tuple as well (Python tests them by truthiness).          *)
(*   - an address is the sequence of its characters, so that               *)
(*     str.startswith("b") is decided on the text of the address.          *)
(*   - a txid is <<height, kind>>; funding transactions that precede the   *)
(*     scanned chain have height 0.                                        *)
(*   - REAL columns are integers (amounts in whole units).                 *)
(*   - json.dumps(sorted(S)) of an address set S is modelled by S itself   *)
(*     (the encoding is injective on sets).                                *)
(***************************************************************************)
EXTENDS Integers, Sequences, FiniteSets, TLC

\* ------------------------------------------------------------------ bounds
\* Heights of the chain the node serves (getblockcount).
MaxHeight == 2
\* Environment failures (node errors, process kills) injected over a behaviour.
MaxFaults == 1

\* --------------------------------------------------------------- constants
\* LRUCache(max_size=20000) in main.
LruMaxSize == 20000
\* Seconds of a UTC calendar day (utc_date).
DaySeconds == 86400
\* datetime(2018, 12, 15) and datetime(2019, 1, 31) as epoch seconds.
TurnstileFrom == 1544832000
TurnstileTo == 1548892800

Null == <<>>
Some(v) == <<v>>
IsNull(x) == x = <<>>

\* --------------------------------------------------------------- addresses
Rm    == <<"R", "m">>      \* a solo miner, not in config.pool_addresses
Rpool == <<"R", "p">>      \* a pool address of config.pool_addresses
Rn    == <<"R", "n">>      \* a notary address of notaries.json
Rx    == <<"R", "x">>      \* an ordinary transparent address
bA    == <<"b", "A">>      \* a P2SH (multisig) address
bB    == <<"b", "B">>      \* another P2SH address

AddrList == <<Rm, Rpool, Rn, Rx, bA, bB>>
Reverse(s) == [i \in 1..Len(s) |-> s[Len(s) + 1 - i]]
\* Iteration orders of a Python set of strings (they depend on the hash seed).
IterOrders == {AddrList, Reverse(AddrList)}

\* First element of the set S in iteration order ord, Null when S is empty.
FirstOf(S, ord) ==
    IF \A i \in 1..Len(ord) : ord[i] \notin S THEN Null
    ELSE ord[CHOOSE i \in 1..Len(ord) :
                 ord[i] \in S /\ \A j \in 1..(i - 1) : ord[j] \notin S]

StartsWithB(a) == Len(a) > 0 /\ a[1] = "b"

\* config.pool_addresses : name -> address
pool_lookup == [n \in {"pool"} |-> Rpool]
\* load_notaries : address -> Notary(name, season, address)
notary_lookup == [a \in {Rn} |-> [name |-> "alice", season |-> "S3", address |-> a]]
NoNotary == [name |-> "", season |-> "", address |-> Null]

\* ------------------------------------------------------------ transactions
VinCoinbase == [coinbase |-> TRUE, address |-> Null, txid |-> Null, vout |-> Null]
VinRef(t, i) == [coinbase |-> FALSE, address |-> Null, txid |-> t, vout |-> Some(i)]
VinAddr(a, t, i) == [coinbase |-> FALSE, address |-> a, txid |-> t, vout |-> Some(i)]
Out(v, ty, rs, as) == [value |-> v, type |-> ty, reqSigs |-> rs, addresses |-> as]

MkTx(id, vin, vout, spend, output, js, vb) ==
    [txid |-> id, vin |-> vin, vout |-> vout, vShieldedSpend |-> spend,
     vShieldedOutput |-> output, vjoinsplit |-> js, valueBalance |-> vb,
     decryptedoutputs |-> <<>>]

\* Transactions older than the scanned range, known to the node only.
FundingTx(k) ==
    CASE k = "Fm" -> MkTx(<<0, k>>, <<VinCoinbase>>,
                          [i \in 1..(MaxHeight + 1) |-> Out(5, "pubkey", 1, <<Rm>>)], 0, 0, <<>>, 0)
      [] k = "Fb" -> MkTx(<<0, k>>, <<>>,
                          [i \in 1..(MaxHeight + 1) |-> Out(3, "scripthash", 1, <<bA>>)], 1, 0, <<>>, 4)
      [] k = "Fx" -> MkTx(<<0, k>>, <<>>,
                          [i \in 1..(MaxHeight + 1) |-> Out(4, "pubkeyhash", 1, <<Rx>>)], 1, 0, <<>>, 5)

\* The transaction of kind k mined at height h.
ChainTx(h, k) ==
    CASE k = "cb"  -> MkTx(<<h, k>>, <<VinCoinbase>>, <<Out(3, "pubkey", 1, <<Rm>>)>>, 0, 0, <<>>, 0)
      [] k = "cbp" -> MkTx(<<h, k>>, <<VinCoinbase>>, <<Out(3, "pubkey", 1, <<Rpool>>)>>, 0, 0, <<>>, 0)
      [] k = "cb2" -> MkTx(<<h, k>>, <<VinCoinbase>>,
                           <<Out(2, "pubkey", 1, <<Rm>>), Out(1, "pubkey", 1, <<Rx>>)>>, 0, 0, <<>>, 0)
      \* shielded -> P2SH: atomic swap start, fee 1
      [] k = "swS" -> MkTx(<<h, k>>, <<>>, <<Out(2, "scripthash", 1, <<bA>>)>>, 1, 0, <<>>, 3)
      \* P2SH -> shielded: atomic swap completion, fee 1
      [] k = "swC" -> MkTx(<<h, k>>, <<VinRef(<<0, "Fb">>, h - 1)>>, <<>>, 0, 1, <<>>, -2)
      \* the same with the input address already given by the node
      [] k = "swA" -> MkTx(<<h, k>>, <<VinAddr(bA, <<0, "Fb">>, h - 1)>>, <<>>, 0, 1, <<>>, -2)
      \* transparent -> transparent, fee 1
      [] k = "ut"  -> MkTx(<<h, k>>, <<VinRef(<<0, "Fx">>, h - 1)>>,
                           <<Out(3, "pubkeyhash", 1, <<Rx>>)>>, 0, 0, <<>>, 0)
      \* transparent -> notary, fee 1
      [] k = "dp"  -> MkTx(<<h, k>>, <<VinRef(<<0, "Fx">>, h - 1)>>,
                           <<Out(3, "pubkey", 1, <<Rn>>)>>, 0, 0, <<>>, 0)
      \* miner address -> shielded (Sprout joinsplit), fee 1
      [] k = "cs"  -> MkTx(<<h, k>>, <<VinRef(<<0, "Fm">>, h - 1)>>, <<>>, 0, 0,
                           <<[vpub_old |-> 4, vpub_new |-> 0]>>, 0)
      \* shielded -> transparent, fee 1
      [] k = "ts"  -> MkTx(<<h, k>>, <<>>, <<Out(2, "pubkeyhash", 1, <<Rx>>)>>, 1, 0, <<>>, 3)
      \* fully shielded, fee 1
      [] k = "sh"  -> MkTx(<<h, k>>, <<>>, <<>>, 1, 1, <<>>, 1)

\* What the node's transaction index holds under a txid.
NodeTx(txid) == IF txid[1] = 0 THEN FundingTx(txid[2]) ELSE ChainTx(txid[1], txid[2])

\* getblock <height> 2 returns decoded transactions (dict entries).
Entry(tx) == [isdict |-> TRUE, tx |-> tx, txid |-> tx.txid]

\* Compositions of a chain: block h holds the kinds of pattern[h], cyclically.
Patterns ==
    { << <<"cb", "swS">>, <<"cb", "swC">> >>,
      << <<"cb", "swC">>, <<"cbp", "swS">> >>,
      << <<"cb", "swS">>, <<"cb", "swS", "ut">>, <<"cbp", "swA">> >>,
      << <<"cb", "ut">>, <<"cbp", "cs">>, <<"cb", "dp">> >>,
      << <<"cb", "dp">>, <<"cb", "sh">>, <<"cb", "ts">> >>,
      << <<"cb2", "swA", "ut">>, <<"cb", "sh", "swS">> >>,
      << <<"cb", "swS">>, <<"cb", "swS", "swC">> >> }

\* Block 1 is mined at 2019-06-01T00:00:00Z, the next ones 50000 s apart, so
\* that heights 1 and 2 share a UTC day and height 3 falls on the next one.
BlockTime(h) == 1559347200 + (h - 1) * 50000

BlockOf(pattern, h) ==
    LET kinds == pattern[((h - 1) % Len(pattern)) + 1]
    IN  [time |-> BlockTime(h),
         tx   |-> [i \in 1..Len(kinds) |-> Entry(ChainTx(h, kinds[i]))]]

Chains == { [h \in 1..MaxHeight |-> BlockOf(p, h)] : p \in Patterns }

\* ------------------------------------------------------------- LRU cache
\* LRUCache.data is an OrderedDict: a sequence of [k, v], oldest first.
LruHas(data, key) == \E i \in 1..Len(data) : data[i].k = key
LruIndex(data, key) == CHOOSE i \in 1..Len(data) : data[i].k = key
LruRemove(data, key) == SelectSeq(data, LAMBDA e : e.k # key)

\* (mutant) a hit leaves the entry where it is.
LruGet_NoTouch(data, key) ==
    IF LruHas(data, key)
    THEN [hit |-> TRUE, val |-> data[LruIndex(data, key)].v, data |-> data]
    ELSE [hit |-> FALSE, val |-> Null, data |-> data]

\* LRUCache.get: [hit, val, data]; a hit moves the entry to the end.
LruGet(data, key) ==
    IF LruHas(data, key)
    THEN LET e == data[LruIndex(data, key)]
         IN  [hit |-> TRUE, val |-> e.v, data |-> Append(LruRemove(data, key), e)]
    ELSE [hit |-> FALSE, val |-> Null, data |-> data]

\* (mutant) the overflow test is made before the entry is stored.
LruSet_CheckFirst(data, key, value, max_size) ==
    Append(IF Len(data) > max_size THEN Tail(LruRemove(data, key)) ELSE LruRemove(data, key),
           [k |-> key, v |-> value])

\* LRUCache.set: store, move to the end, drop the oldest entry on overflow.
LruSet(data, key, value, max_size) ==
    LET moved == Append(LruRemove(data, key), [k |-> key, v |-> value])
    IN  IF Len(moved) > max_size THEN Tail(moved) ELSE moved

\* The persistent tier (shelve): a set of [k, v].
PersHas(pers, key) == \E e \in pers : e.k = key
PersGet(pers, key) == (CHOOSE e \in pers : e.k = key).v
\* (mutant) the persistent tier keeps the last entry only.
PersPut_SingleSlot(pers, key, value) == {[k |-> key, v |-> value]}

PersPut(pers, key, value) == {e \in pers : e.k # key} \cup {[k |-> key, v |-> value]}

\* The caches of one process: c = [mem, max_size, pers, persOn, calls]; mem and
\* max_size are the LRUCache (its data and capacity); persOn is FALSE
\* when shelve.open failed (persistent_cache is None); calls logs the txids
\* asked from the node by getrawtransaction.
\* get_prev_tx: [err, val, c]; down is the set of txids the node fails on.
\* (mutant) a hit of the persistent tier is not looked for.
get_prev_tx_NoPersistentRead(txid, down, c) ==
    LET g == LruGet(c.mem, txid) IN
    IF g.hit THEN [err |-> FALSE, val |-> g.val, c |-> [c EXCEPT !.mem = g.data]]
    ELSE IF txid \in down
    THEN [err |-> TRUE, val |-> Null, c |-> [c EXCEPT !.calls = @ \cup {txid}]]
    ELSE [err |-> FALSE, val |-> NodeTx(txid),
          c |-> [c EXCEPT !.mem = LruSet(c.mem, txid, NodeTx(txid), c.max_size),
                          !.pers = IF c.persOn THEN PersPut(c.pers, txid, NodeTx(txid)) ELSE @,
                          !.calls = @ \cup {txid}]]

get_prev_tx(txid, down, c) ==
    LET g == LruGet(c.mem, txid) IN
    IF g.hit THEN [err |-> FALSE, val |-> g.val, c |-> [c EXCEPT !.mem = g.data]]
    ELSE IF c.persOn /\ PersHas(c.pers, txid)
    THEN LET v == PersGet(c.pers, txid)
         IN  [err |-> FALSE, val |-> v,
              c |-> [c EXCEPT !.mem = LruSet(c.mem, txid, v, c.max_size)]]
    ELSE IF txid \in down
    THEN [err |-> TRUE, val |-> Null, c |-> [c EXCEPT !.calls = @ \cup {txid}]]
    ELSE LET v == NodeTx(txid)
         IN  [err |-> FALSE, val |-> v,
              c |-> [c EXCEPT !.mem = LruSet(c.mem, txid, v, c.max_size),
                              !.pers = IF c.persOn THEN PersPut(c.pers, txid, v) ELSE @,
                              !.calls = @ \cup {txid}]]

\* ------------------------------------------------------------- addresses
SeqToSet(s) == {s[i] : i \in 1..Len(s)}

collect_vout_addresses(tx) ==
    (UNION {SeqToSet(tx.vout[i].addresses) : i \in 1..Len(tx.vout)})
      \cup ({tx.decryptedoutputs[i].address : i \in 1..Len(tx.decryptedoutputs)} \ {Null})

\* collect_vin_addresses with prev_tx_lookup = get_prev_tx, from input i on:
\* [err, addrs, c]. A failing lookup raises out of the loop.
RECURSIVE CollectVinFrom(_, _, _, _, _)
CollectVinFrom(tx, i, addrs, down, c) ==
    IF i > Len(tx.vin) THEN [err |-> FALSE, addrs |-> addrs, c |-> c]
    ELSE LET vin == tx.vin[i] IN
         IF ~IsNull(vin.address)
         THEN CollectVinFrom(tx, i + 1, addrs \cup {vin.address}, down, c)
         ELSE IF IsNull(vin.txid) \/ IsNull(vin.vout)
         THEN CollectVinFrom(tx, i + 1, addrs, down, c)
         ELSE LET r == get_prev_tx(vin.txid, down, c) IN
              IF r.err THEN [err |-> TRUE, addrs |-> addrs, c |-> r.c]
              ELSE LET prev_outs == r.val.vout
                       idx == vin.vout[1]
                   IN  CollectVinFrom(tx, i + 1,
                           IF idx < Len(prev_outs)
                           THEN addrs \cup SeqToSet(prev_outs[idx + 1].addresses)
                           ELSE addrs,
                           down, r.c)

collect_vin_addresses(tx, down, c) == CollectVinFrom(tx, 1, {}, down, c)

is_coinbase_tx(tx) == Len(tx.vin) > 0 /\ tx.vin[1].coinbase

has_shielded_parts(tx) ==
    \/ tx.vShieldedSpend # 0
    \/ tx.vShieldedOutput # 0
    \/ Len(tx.vjoinsplit) > 0
    \/ tx.valueBalance # 0

\* (mutant) the outputs of the transaction are not looked at.
has_transparent_io_Never(tx) == FALSE

has_transparent_io(tx) == Len(tx.vout) > 0

Abs(x) == IF x < 0 THEN -x ELSE x
shielded_value(tx) == Abs(tx.valueBalance)

\* utc_date: the UTC calendar day of a timestamp, as its day number.
utc_date(ts) == ts \div DaySeconds

\* (mutant) no address is looked up.
detect_notary_Never(addrs, lookup, ord) == NoNotary

\* detect_notary: the notary of the first address (in iteration order) that
\* is a key of the lookup.
detect_notary(addrs, lookup, ord) ==
    LET a == FirstOf(addrs \cap DOMAIN lookup, ord)
    IN  IF IsNull(a) THEN NoNotary ELSE lookup[a]

first_multisig_addr(addresses, ord) == FirstOf({a \in addresses : StartsWithB(a)}, ord)

multisig_like_out(tx) ==
    \E i \in 1..Len(tx.vout) :
        \/ tx.vout[i].type \in {"multisig", "scripthash"}
        \/ tx.vout[i].reqSigs > 1
        \/ \E a \in SeqToSet(tx.vout[i].addresses) : StartsWithB(a)

in_turnstile_window(timestamp) ==
    timestamp # 0 /\ TurnstileFrom <= timestamp /\ timestamp <= TurnstileTo

\* (mutant) the last rule answers with the generic label.
Verdict_Generic(t, n, p, a) ==
    [tx_type |-> IF t = "shielded" THEN "unknown" ELSE t, notary |-> n, phase |-> p,
     swap_addr |-> a]

Verdict(t, n, p, a) == [tx_type |-> t, notary |-> n, phase |-> p, swap_addr |-> a]

\* classify_tx: (tx_type, notary, phase, swap_addr); phase "" is None.
classify_tx(tx, vin_addrs, vout_addrs, lookup, miner_addresses, timestamp, ord) ==
    LET all_addrs == vin_addrs \cup vout_addrs
        notary == detect_notary(all_addrs, lookup, ord)
        transparent == has_transparent_io(tx)
        transparent_inputs == vin_addrs # {}
        shielded == has_shielded_parts(tx)
        ms_out == multisig_like_out(tx)
        ms_in == \E a \in vin_addrs : StartsWithB(a)
        swap_out_addr == first_multisig_addr(vout_addrs, ord)
        swap_in_addr == first_multisig_addr(vin_addrs, ord)
    IN  IF is_coinbase_tx(tx) THEN Verdict("coinbase", NoNotary, "", Null)
        ELSE IF ~IsNull(notary.address) THEN Verdict("dpow", notary, "", Null)
        ELSE IF shielded /\ ms_out THEN Verdict("atomic_swap", NoNotary, "start", swap_out_addr)
        ELSE IF shielded /\ ms_in /\ ~transparent
             THEN Verdict("atomic_swap_complete", NoNotary, "complete", swap_in_addr)
        ELSE IF shielded /\ transparent /\ ~ms_out /\ ~transparent_inputs
             THEN Verdict("turnstile", NoNotary, "", Null)
        ELSE IF shielded /\ transparent_inputs /\ ~transparent
             THEN IF vin_addrs \cap miner_addresses # {}
                  THEN Verdict("coinbase_shielding", NoNotary, "", Null)
                  ELSE IF in_turnstile_window(timestamp)
                  THEN Verdict("turnstile", NoNotary, "", Null)
                  ELSE Verdict("unknown_transparent", NoNotary, "", Null)
        ELSE IF transparent /\ (shielded \/ ms_out)
             THEN Verdict("atomic_swap", NoNotary, "start", swap_out_addr)
        ELSE IF transparent THEN Verdict("unknown_transparent", NoNotary, "", Null)
        ELSE Verdict("shielded", NoNotary, "", Null)

\* ---------------------------------------------------------- values and fee
RECURSIVE SumSeq(_)
SumSeq(s) == IF s = <<>> THEN 0 ELSE Head(s) + SumSeq(Tail(s))

sum_vout_values(tx) == SumSeq([i \in 1..Len(tx.vout) |-> tx.vout[i].value])

\* fetch_input_total from input i on: [total, c]; total is Null (None) as soon
\* as a lookup fails.
RECURSIVE FetchInputFrom(_, _, _, _, _)
FetchInputFrom(tx, i, total, down, c) ==
    IF i > Len(tx.vin) THEN [total |-> Some(total), c |-> c]
    ELSE LET vin == tx.vin[i] IN
         IF IsNull(vin.txid) THEN FetchInputFrom(tx, i + 1, total, down, c)
         ELSE LET r == get_prev_tx(vin.txid, down, c) IN
              IF r.err THEN [total |-> Null, c |-> r.c]
              ELSE IF IsNull(vin.vout) THEN FetchInputFrom(tx, i + 1, total, down, r.c)
              ELSE LET prev_outs == r.val.vout
                       idx == vin.vout[1]
                   IN  FetchInputFrom(tx, i + 1,
                           IF idx < Len(prev_outs) THEN total + prev_outs[idx + 1].value
                           ELSE total,
                           down, r.c)

fetch_input_total(tx, down, c) == FetchInputFrom(tx, 1, 0, down, c)

OrZero(x) == IF IsNull(x) THEN 0 ELSE x[1]

\* (mutant) the estimate is returned as it is.
compute_fee_Unclamped(total_in, total_out, tx) ==
    OrZero(total_in) - total_out
      - SumSeq([i \in 1..Len(tx.vjoinsplit) |-> tx.vjoinsplit[i].vpub_old])
      + SumSeq([i \in 1..Len(tx.vjoinsplit) |-> tx.vjoinsplit[i].vpub_new])
      + tx.valueBalance

\* (mutant) the two sides of a joinsplit are taken for each other.
compute_fee_VpubSwapped(total_in, total_out, tx) ==
    LET vin_sum == OrZero(total_in)
        vb == tx.valueBalance
        vpub_old == SumSeq([i \in 1..Len(tx.vjoinsplit) |-> tx.vjoinsplit[i].vpub_new])
        vpub_new == SumSeq([i \in 1..Len(tx.vjoinsplit) |-> tx.vjoinsplit[i].vpub_old])
        fee == vin_sum - total_out - vpub_old + vpub_new + vb
    IN  IF fee < 0 THEN 0 ELSE fee

compute_fee(total_in, total_out, tx) ==
    LET vin_sum == OrZero(total_in)
        vb == tx.valueBalance
        vpub_old == SumSeq([i \in 1..Len(tx.vjoinsplit) |-> tx.vjoinsplit[i].vpub_old])
        vpub_new == SumSeq([i \in 1..Len(tx.vjoinsplit) |-> tx.vjoinsplit[i].vpub_new])
        fee == vin_sum - total_out - vpub_old + vpub_new + vb
    IN  IF fee < 0 THEN 0 ELSE fee

\* ------------------------------------------------------------- the database
\* The tables of ensure_schema, each a set of rows.
EmptyTables ==
    [daily_stats |-> {}, processed_blocks |-> {}, coinbase_shielding_txs |-> {},
     miners |-> {}, coinbase_txs |-> {}, dpow_txs |-> {}, atomic_swap_txs |-> {},
     turnstile_txs |-> {}, unknown_transparent_txs |-> {}, unknown_txs |-> {},
     shielded_txs |-> {}]

\* A connection k = [wk, db]: wk is what the connection sees (the committed
\* tables and its own pending writes), db is what is committed on disk.
Commit(k) == [k EXCEPT !.db = k.wk]

\* INSERT OR IGNORE on a table whose primary key is txid.
InsertOrIgnore(rows, row) ==
    IF \E r \in rows : r.txid = row.txid THEN rows ELSE rows \cup {row}

\* update_daily_stats: insert (date, tx_type) with count 1, or add to the row.
update_daily_stats(T, date, tx_type, fee, amount) ==
    LET old == {r \in T.daily_stats : r.date = date /\ r.tx_type = tx_type}
        new == IF old = {}
               THEN {[date |-> date, tx_type |-> tx_type, tx_count |-> 1,
                      total_fee |-> fee, total_amount |-> amount]}
               ELSE {[r EXCEPT !.tx_count = @ + 1, !.total_fee = @ + fee,
                               !.total_amount = @ + amount] : r \in old}
    IN  [T EXCEPT !.daily_stats = (@ \ old) \cup new]

\* upsert_miner: insert the address with count 1, or add to its row.
upsert_miner(T, address, name, ts, amount) ==
    LET old == {r \in T.miners : r.address = address}
        new == IF old = {}
               THEN {[address |-> address, name |-> name, first_seen |-> ts,
                      last_seen |-> ts, total_amount |-> amount, tx_count |-> 1]}
               ELSE {[r EXCEPT !.name = name, !.last_seen = ts,
                               !.total_amount = @ + amount, !.tx_count = @ + 1] : r \in old}
    IN  [T EXCEPT !.miners = (@ \ old) \cup new]

\* The pool name of an address in config.pool_addresses, "" (None) if none.
PoolNameOf(addr) ==
    IF \E n \in DOMAIN pool_lookup : pool_lookup[n] = addr
    THEN CHOOSE n \in DOMAIN pool_lookup : pool_lookup[n] = addr
    ELSE ""

\* store_coinbase: [k, miner_addresses]. Only the first output address (in
\* set iteration order) gets a miner row.
store_coinbase(k, tx, block_height, ts, miner_addresses, ord) ==
    LET date == utc_date(ts)
        total_out == sum_vout_values(tx)
        addrs == collect_vout_addresses(tx)
        addr == FirstOf(addrs, ord)
        pool_name == IF IsNull(addr) THEN "" ELSE PoolNameOf(addr)
        T1 == IF IsNull(addr) THEN k.wk
              ELSE upsert_miner(k.wk, addr,
                                IF pool_name = "" THEN "unknown miner" ELSE pool_name,
                                ts, total_out)
        T2 == [T1 EXCEPT !.coinbase_txs = InsertOrIgnore(@,
                  [txid |-> tx.txid, block_height |-> block_height, timestamp |-> ts,
                   date |-> date, address |-> addr, amount |-> total_out,
                   pool_name |-> pool_name])]
    IN  [k |-> [k EXCEPT !.wk = update_daily_stats(T2, date, "coinbase", 0, total_out)],
         miner_addresses |-> miner_addresses \cup addrs]

store_coinbase_shielding(k, tx, block_height, ts, total_in, fee, vin_addrs) ==
    LET date == utc_date(ts)
        T1 == [k.wk EXCEPT !.coinbase_shielding_txs = InsertOrIgnore(@,
                  [txid |-> tx.txid, block_height |-> block_height, timestamp |-> ts,
                   date |-> date, in_addresses |-> vin_addrs, total_in |-> total_in,
                   fee |-> fee])]
    IN  [k EXCEPT !.wk = update_daily_stats(T1, date, "coinbase_shielding", fee,
                                            shielded_value(tx))]

\* (mutant) the notarisation is counted without its fee.
store_dpow_FeeDropped(k, tx, block_height, ts, notary, total_in, total_out, fee) ==
    LET date == utc_date(ts)
        T1 == [k.wk EXCEPT !.dpow_txs = InsertOrIgnore(@,
                  [txid |-> tx.txid, block_height |-> block_height, timestamp |-> ts,
                   date |-> date, notary_name |-> notary.name,
                   notary_season |-> notary.season, address |-> notary.address,
                   total_in |-> total_in, total_out |-> total_out, fee |-> fee])]
    IN  [k EXCEPT !.wk = update_daily_stats(T1, date, "dpow", 0, total_out)]

store_dpow(k, tx, block_height, ts, notary, total_in, total_out, fee) ==
    LET date == utc_date(ts)
        T1 == [k.wk EXCEPT !.dpow_txs = InsertOrIgnore(@,
                  [txid |-> tx.txid, block_height |-> block_height, timestamp |-> ts,
                   date |-> date, notary_name |-> notary.name,
                   notary_season |-> notary.season, address |-> notary.address,
                   total_in |-> total_in, total_out |-> total_out, fee |-> fee])]
    IN  [k EXCEPT !.wk = update_daily_stats(T1, date, "dpow", fee, total_out)]

\* (mutant) the UPDATE matches the rows of the address in any phase.
SwapStarts_AnyPhase(T, swap_addr) ==
    {r \in T.atomic_swap_txs : r.swap_addr = swap_addr}

\* The rows the UPDATE of store_atomic_swap matches.
SwapStarts(T, swap_addr) ==
    {r \in T.atomic_swap_txs : r.swap_addr = swap_addr /\ r.phase = "start"}

\* (mutant) the UPDATE overwrites the fee instead of adding to it.
SwapCompleteRow_FeeOverwritten(r, txid, block_height, ts, fee, total_in, total_out) ==
    [r EXCEPT !.phase = "complete",
              !.complete_txid = txid,
              !.complete_block_height = Some(block_height),
              !.complete_timestamp = Some(ts),
              !.fee = fee,
              !.total_in = Some(OrZero(@) + OrZero(total_in)),
              !.total_out = @ + total_out]

\* The UPDATE of store_atomic_swap applied to one matching row.
SwapCompleteRow(r, txid, block_height, ts, fee, total_in, total_out) ==
    [r EXCEPT !.phase = "complete",
              !.complete_txid = txid,
              !.complete_block_height = Some(block_height),
              !.complete_timestamp = Some(ts),
              !.fee = @ + fee,
              !.total_in = Some(OrZero(@) + OrZero(total_in)),
              !.total_out = @ + total_out]

\* (mutant) the daily aggregate is updated for every inserted leg.
store_atomic_swap_CompletionsCounted(k, tx, block_height, ts, total_in, total_out, fee, phase, swap_addr, vin_addrs, vout_addrs) ==
    LET date == utc_date(ts)
        matched == IF phase = "complete" /\ ~IsNull(swap_addr)
                   THEN SwapStarts(k.wk, swap_addr) ELSE {}
    IN  IF matched # {}
        THEN Commit([k EXCEPT !.wk.atomic_swap_txs =
                       (@ \ matched) \cup
                       {SwapCompleteRow(r, tx.txid, block_height, ts, fee, total_in, total_out)
                          : r \in matched}])
        ELSE LET k1 == Commit([k EXCEPT !.wk.atomic_swap_txs = InsertOrIgnore(@,
                          [txid |-> tx.txid, block_height |-> block_height,
                           timestamp |-> ts, date |-> date, phase |-> phase,
                           swap_addr |-> swap_addr, in_addresses |-> vin_addrs,
                           out_addresses |-> vout_addrs, total_in |-> total_in,
                           total_out |-> total_out, fee |-> fee,
                           complete_txid |-> Null, complete_block_height |-> Null,
                           complete_timestamp |-> Null])])
             IN  [k1 EXCEPT !.wk = update_daily_stats(@, date, "atomic_swap", fee, total_out)]

\* store_atomic_swap. It commits the connection's transaction itself, after
\* the UPDATE that matched and after the INSERT.
store_atomic_swap(k, tx, block_height, ts, total_in, total_out, fee, phase, swap_addr, vin_addrs, vout_addrs) ==
    LET date == utc_date(ts)
        matched == IF phase = "complete" /\ ~IsNull(swap_addr)
                   THEN SwapStarts(k.wk, swap_addr) ELSE {}
    IN  IF matched # {}
        THEN Commit([k EXCEPT !.wk.atomic_swap_txs =
                       (@ \ matched) \cup
                       {SwapCompleteRow(r, tx.txid, block_height, ts, fee, total_in, total_out)
                          : r \in matched}])
        ELSE LET k1 == Commit([k EXCEPT !.wk.atomic_swap_txs = InsertOrIgnore(@,
                          [txid |-> tx.txid, block_height |-> block_height,
                           timestamp |-> ts, date |-> date, phase |-> phase,
                           swap_addr |-> swap_addr, in_addresses |-> vin_addrs,
                           out_addresses |-> vout_addrs, total_in |-> total_in,
                           total_out |-> total_out, fee |-> fee,
                           complete_txid |-> Null, complete_block_height |-> Null,
                           complete_timestamp |-> Null])])
             IN  IF phase = "start"
                 THEN [k1 EXCEPT !.wk = update_daily_stats(@, date, "atomic_swap", fee, total_out)]
                 ELSE k1

TransparentRow(tx, block_height, ts, total_in, total_out, fee, vin_addrs, vout_addrs) ==
    [txid |-> tx.txid, block_height |-> block_height, timestamp |-> ts,
     date |-> utc_date(ts), in_addresses |-> vin_addrs, out_addresses |-> vout_addrs,
     total_in |-> total_in, total_out |-> total_out, fee |-> fee]

store_turnstile(k, tx, block_height, ts, total_in, total_out, fee, vin_addrs, vout_addrs) ==
    LET T1 == [k.wk EXCEPT !.turnstile_txs = InsertOrIgnore(@,
                  TransparentRow(tx, block_height, ts, total_in, total_out, fee,
                                 vin_addrs, vout_addrs))]
    IN  [k EXCEPT !.wk = update_daily_stats(T1, utc_date(ts), "turnstile", fee, total_out)]

\* store_unknown_transparent files its daily aggregate under TxType.UNKNOWN.
store_unknown_transparent(k, tx, block_height, ts, total_in, total_out, fee, vin_addrs, vout_addrs) ==
    LET T1 == [k.wk EXCEPT !.unknown_transparent_txs = InsertOrIgnore(@,
                  TransparentRow(tx, block_height, ts, total_in, total_out, fee,
                                 vin_addrs, vout_addrs))]
    IN  [k EXCEPT !.wk = update_daily_stats(T1, utc_date(ts), "unknown", fee, total_out)]

store_unknown(k, tx, block_height, ts, note) ==
    LET T1 == [k.wk EXCEPT !.unknown_txs = InsertOrIgnore(@,
                  [txid |-> tx.txid, block_height |-> block_height, timestamp |-> ts,
                   date |-> utc_date(ts), note |-> note])]
    IN  [k EXCEPT !.wk = update_daily_stats(T1, utc_date(ts), "unknown", 0, 0)]

store_shielded(k, tx, block_height, ts, fee) ==
    LET T1 == [k.wk EXCEPT !.shielded_txs = InsertOrIgnore(@,
                  [txid |-> tx.txid, block_height |-> block_height, timestamp |-> ts,
                   date |-> utc_date(ts)])]
    IN  [k EXCEPT !.wk = update_daily_stats(T1, utc_date(ts), "shielded", fee, 0)]

\* (mutant) the ledger is never consulted.
is_block_processed_Never(T, block_height) == FALSE

is_block_processed(T, block_height) ==
    \E r \in T.processed_blocks : r.block_height = block_height

\* (mutant) the checkpoint row is not written.
mark_block_processed_Dropped(T, block_height, ts) == T

mark_block_processed(T, block_height, ts) ==
    IF is_block_processed(T, block_height) THEN T
    ELSE [T EXCEPT !.processed_blocks = @ \cup
            {[block_height |-> block_height, timestamp |-> ts, date |-> utc_date(ts)]}]

MaxOf(S) == CHOOSE x \in S : \A y \in S : y <= x

\* last_processed_block: MAX(block_height) of the ledger, 0 when it is empty.
last_processed_block(T) ==
    IF T.processed_blocks = {} THEN 0
    ELSE MaxOf({r.block_height : r \in T.processed_blocks})

\* next_coinbase_height: one past MAX(block_height) of coinbase_txs.
next_coinbase_height(T) ==
    (IF T.coinbase_txs = {} THEN 0 ELSE MaxOf({r.block_height : r \in T.coinbase_txs})) + 1

\* ----------------------------------------------------------- process_block
NoLast ==
    [txid |-> Null, tx_type |-> "", phase |-> "", swap_addr |-> Null,
     total_in |-> Null, total_out |-> 0, fee |-> 0]

\* The entry of block["tx"] as a decoded transaction: [err, tx, c]. A bare
\* txid is looked up in the memory cache, then asked from the node.
ResolveEntry(entry, down, c) ==
    IF entry.isdict THEN [err |-> FALSE, tx |-> entry.tx, c |-> c]
    ELSE LET g == LruGet(c.mem, entry.txid) IN
         IF g.hit THEN [err |-> FALSE, tx |-> g.val, c |-> [c EXCEPT !.mem = g.data]]
         ELSE IF entry.txid \in down
         THEN [err |-> TRUE, tx |-> entry.tx, c |-> [c EXCEPT !.calls = @ \cup {entry.txid}]]
         ELSE [err |-> FALSE, tx |-> NodeTx(entry.txid),
               c |-> [c EXCEPT !.mem = LruSet(@, entry.txid, NodeTx(entry.txid), c.max_size),
                               !.calls = @ \cup {entry.txid}]]

\* The dispatch of process_block on the classifier's verdict:
\* [k, miner_addresses].
StoreTx(k, tx, block_height, ts, v, total_in, total_out, fee, vin_addrs, vout_addrs, miner_addresses, ord) ==
    CASE v.tx_type = "coinbase" ->
           store_coinbase(k, tx, block_height, ts, miner_addresses, ord)
      [] v.tx_type = "coinbase_shielding" ->
           [k |-> store_coinbase_shielding(k, tx, block_height, ts, total_in, fee, vin_addrs),
            miner_addresses |-> miner_addresses]
      [] v.tx_type = "dpow" ->
           [k |-> store_dpow(k, tx, block_height, ts, v.notary, total_in, total_out, fee),
            miner_addresses |-> miner_addresses]
      [] v.tx_type \in {"atomic_swap", "atomic_swap_complete"} ->
           [k |-> store_atomic_swap(k, tx, block_height, ts, total_in, total_out, fee,
                                    IF v.phase = "" THEN "start" ELSE v.phase,
                                    v.swap_addr, vin_addrs, vout_addrs),
            miner_addresses |-> miner_addresses]
      [] v.tx_type = "turnstile" ->
           [k |-> store_turnstile(k, tx, block_height, ts, total_in, total_out, fee,
                                  vin_addrs, vout_addrs),
            miner_addresses |-> miner_addresses]
      [] v.tx_type = "unknown_transparent" ->
           [k |-> store_unknown_transparent(k, tx, block_height, ts, total_in, total_out,
                                            fee, vin_addrs, vout_addrs),
            miner_addresses |-> miner_addresses]
      [] v.tx_type = "unknown" ->
           [k |-> store_unknown(k, tx, block_height, ts, "uncategorized"),
            miner_addresses |-> miner_addresses]
      [] OTHER ->
           [k |-> store_shielded(k, tx, block_height, ts, fee),
            miner_addresses |-> miner_addresses]

\* One iteration of the loop of process_block over block["tx"], on the state
\* s = [k, c, miner_addresses], is ProcessTx below: [err, s, last]. err is an
\* exception leaving process_block; last is what was classified and stored.
\* Its stages follow, the last one first. The transaction is stored (st).
ProcessTx_stored(s, decoded, v, fi, total_out, fee, st) ==
    [err |-> FALSE,
     s |-> [k |-> st.k, c |-> fi.c, miner_addresses |-> st.miner_addresses],
     last |-> [txid |-> decoded.txid, tx_type |-> v.tx_type, phase |-> v.phase,
               swap_addr |-> v.swap_addr, total_in |-> fi.total,
               total_out |-> total_out, fee |-> fee]]

\* classify_tx is known: dispatch to the store function.
ProcessTx_classified(s, decoded, vin_addrs, vout_addrs, fi, total_out, fee, v, block_height, ts, ord) ==
    ProcessTx_stored(s, decoded, v, fi, total_out, fee,
        StoreTx(s.k, decoded, block_height, ts, v, fi.total, total_out, fee,
                vin_addrs, vout_addrs, s.miner_addresses, ord))

\* total_out and total_in are known: compute the fee and classify.
ProcessTx_valued(s, decoded, vin_addrs, vout_addrs, fi, total_out, block_height, ts, ord) ==
    ProcessTx_classified(s, decoded, vin_addrs, vout_addrs, fi, total_out,
        compute_fee(fi.total, total_out, decoded),
        classify_tx(decoded, vin_addrs, vout_addrs, notary_lookup,
                    s.miner_addresses, ts, ord),
        block_height, ts, ord)

\* The addresses are collected (cv): an exception of the lookup leaves
\* process_block, otherwise the totals are computed.
ProcessTx_collected(s, decoded, vout_addrs, cv, block_height, ts, down, ord) ==
    IF cv.err THEN [err |-> TRUE, s |-> [s EXCEPT !.c = cv.c], last |-> NoLast]
    ELSE ProcessTx_valued(s, decoded, cv.addrs, vout_addrs,
             fetch_input_total(decoded, down, cv.c), sum_vout_values(decoded),
             block_height, ts, ord)

\* The entry is resolved (e): decoded_cache.set, then the addresses.
ProcessTx_resolved(s, e, block_height, ts, down, ord) ==
    IF e.err THEN [err |-> TRUE, s |-> [s EXCEPT !.c = e.c], last |-> NoLast]
    ELSE ProcessTx_collected(s, e.tx, collect_vout_addresses(e.tx),
             collect_vin_addresses(e.tx, down,
                 IF IsNull(e.tx.txid) THEN e.c
                 ELSE [e.c EXCEPT !.mem = LruSet(@, e.tx.txid, e.tx, e.c.max_size)]),
             block_height, ts, down, ord)

ProcessTx(s, entry, block_height, ts, down, ord) ==
    ProcessTx_resolved(s, ResolveEntry(entry, down, s.c), block_height, ts, down, ord)

\* The previous transactions an entry makes the scanner resolve.
RefsOf(entry) ==
    ({entry.tx.vin[i].txid : i \in 1..Len(entry.tx.vin)} \ {Null})
      \cup (IF entry.isdict THEN {} ELSE {entry.txid})

\* ------------------------------------------------------------------- state
VARIABLES
    chain,            \* the node's blocks, by height
    db,               \* the committed tables (what a reader or a restart sees)
    wk,               \* the tables as the open connection sees them
    pers,             \* the persistent cache file (shelve)
    pc,               \* "idle", "loop", "block", "done", "exit1"
    start, end,       \* the range of the run
    argStart,         \* --start as given to the run (Null: none given)
    height,           \* the loop variable of main
    block, idx,       \* the block being processed and the next entry of it
    mem,              \* decoded_cache.data
    persOn,           \* persistent_cache is not None
    miner_addresses,  \* the in-memory miner set of the run
    calls,            \* txids asked from the node by this run
    fetchLog,         \* heights asked from the node (getblock) by this run
    reported,         \* heights printed as "Error at height h" by this run
    failedAt,         \* heights whose fetch or processing raised in this run
    proc0,            \* the ledger's heights when the run started
    known,            \* every txid of the fetched block was stored already
    last,             \* the last transaction classified and stored
    rerun,            \* the previous run completed this run's range without failure
    hist,             \* "none", or "same" while every run so far had one range, or "mixed"
    faults,           \* environment failures so far
    probe             \* the unit under study in the specifications of single functions

vars == <<chain, db, wk, pers, pc, start, end, argStart, height, block, idx, mem, persOn,
          miner_addresses, calls, fetchLog, reported, failedAt, proc0, known,
          last, rerun, hist, faults, probe>>

NoBlock == [time |-> 0, tx |-> <<>>]
Heights(T) == {r.block_height : r \in T.processed_blocks}

\* The txids stored in some table (as a row, or as a swap's completing leg).
StoredTxids(T) ==
    {r.txid : r \in T.coinbase_txs \cup T.coinbase_shielding_txs \cup T.dpow_txs
                    \cup T.turnstile_txs \cup T.unknown_transparent_txs
                    \cup T.shielded_txs}
      \cup {r.txid : r \in T.atomic_swap_txs}
      \cup {r.complete_txid : r \in T.atomic_swap_txs}

Init ==
    /\ chain \in Chains
    /\ db = EmptyTables
    /\ wk = EmptyTables
    /\ pers = {}
    /\ pc = "idle"
    /\ start = 0 /\ end = 0 /\ height = 0
    /\ argStart = Null
    /\ block = NoBlock /\ idx = 0
    /\ mem = <<>>
    /\ persOn = FALSE
    /\ miner_addresses = {}
    /\ calls = {} /\ fetchLog = {} /\ reported = {} /\ failedAt = {}
    /\ proc0 = {}
    /\ known = FALSE
    /\ last = NoLast
    /\ rerun = FALSE
    /\ hist = "none"
    /\ faults = 0
    /\ probe = Null

\* -------------------------------------------------------------------- main
Stopped == pc \in {"idle", "done", "exit1"}
Running == pc \in {"loop", "block"}

\* getblockcount: the node serves the heights 1..MaxHeight.
current_height == MaxHeight

\* (mutant) the resume point is the last checkpointed height itself.
resume_height_NotPast(T) ==
    IF last_processed_block(T) # 0 THEN last_processed_block(T)
    ELSE next_coinbase_height(T)

\* The resume point main offers as the default start height.
resume_height(T) ==
    IF last_processed_block(T) # 0 THEN last_processed_block(T) + 1
    ELSE next_coinbase_height(T)

\* --start / --end: absent (the prompt's default is taken) or a height.
StartArgs == {Null} \cup {Some(n) : n \in 1..MaxHeight}
EndArgs == {Null} \cup {Some(n) : n \in 1..MaxHeight}

\* What every step of a run leaves alone unless it says otherwise.
RunLogsUnchanged == UNCHANGED <<calls, fetchLog, reported, failedAt, proc0>>

\* main, when getblockcount fails: the error is printed and the process
\* exits with status 1 before the database is opened. It is a new process:
\* it has asked nothing from the node and reported no height.
BlockCountFails ==
    /\ Stopped
    /\ faults < MaxFaults
    /\ pc' = "exit1"
    /\ faults' = faults + 1
    /\ calls' = {} /\ fetchLog' = {} /\ reported' = {} /\ failedAt' = {}
    /\ UNCHANGED <<chain, db, wk, pers, start, end, height, block, idx, mem, persOn,
                   miner_addresses, known, last, rerun, hist, argStart, proc0>>
    /\ UNCHANGED probe

\* main up to the loop: open the database, choose the range, reject an
\* invalid one, set up the miner set and the caches.
MainStart ==
    /\ Stopped
    /\ \E startArg \in StartArgs, endArg \in EndArgs :
         LET s0 == IF IsNull(startArg) THEN resume_height(db) ELSE startArg[1]
             e0 == IF IsNull(endArg) THEN current_height ELSE endArg[1]
         IN  /\ start' = s0
             /\ end' = e0
             /\ argStart' = startArg
             /\ wk' = db
             /\ rerun' = (pc = "done" /\ failedAt = {} /\ start = s0 /\ end = e0)
             /\ hist' = IF hist = "none" \/ (hist = "same" /\ start = s0 /\ end = e0)
                        THEN "same" ELSE "mixed"
             /\ IF s0 < 1 \/ e0 < s0
                THEN /\ pc' = "exit1"
                     /\ UNCHANGED <<height, mem, persOn, miner_addresses, proc0>>
                ELSE /\ pc' = "loop"
                     /\ height' = s0
                     /\ mem' = <<>>
                     /\ persOn' = TRUE
                     /\ miner_addresses' = {pool_lookup[n] : n \in DOMAIN pool_lookup}
                     /\ proc0' = Heights(db)
    /\ calls' = {} /\ fetchLog' = {} /\ reported' = {} /\ failedAt' = {}
    /\ block' = NoBlock /\ idx' = 0 /\ known' = FALSE /\ last' = NoLast
    /\ UNCHANGED <<chain, db, pers, faults>>
    /\ UNCHANGED probe

\* (mutant) the except branch reports the height and goes on with the next.
HeightFailed_Continue ==
    /\ reported' = reported \cup {height}
    /\ failedAt' = failedAt \cup {height}
    /\ pc' = "loop"
    /\ height' = height + 1
    /\ wk' = db
    /\ mem' = mem /\ miner_addresses' = miner_addresses
    /\ block' = NoBlock /\ idx' = 0 /\ known' = FALSE /\ last' = NoLast
    /\ UNCHANGED db

\* The except branch of the loop: report the height, leave the loop, close
\* the connection (its pending writes are dropped) and the cache file; the
\* process ends, and with it its memory.
HeightFailed ==
    /\ reported' = reported \cup {height}
    /\ failedAt' = failedAt \cup {height}
    /\ pc' = "done"
    /\ wk' = db
    /\ mem' = <<>> /\ miner_addresses' = {}
    /\ block' = NoBlock /\ idx' = 0 /\ known' = FALSE /\ last' = NoLast
    /\ UNCHANGED <<db, height>>

\* An already checkpointed height: continue.
SkipProcessed ==
    /\ pc = "loop" /\ height <= end
    /\ is_block_processed(wk, height)
    /\ height' = height + 1
    /\ UNCHANGED <<chain, db, wk, pers, pc, start, end, block, idx, mem, persOn,
                   miner_addresses, known, last, rerun, hist, faults, argStart>>
    /\ RunLogsUnchanged
    /\ UNCHANGED probe

\* get_block succeeds: process_block starts on the block.
FetchBlock ==
    /\ pc = "loop" /\ height <= end
    /\ ~is_block_processed(wk, height)
    /\ fetchLog' = fetchLog \cup {height}
    /\ block' = chain[height]
    /\ idx' = 1
    /\ known' = ({chain[height].tx[i].txid : i \in 1..Len(chain[height].tx)}
                   \subseteq StoredTxids(wk))
    /\ last' = NoLast
    /\ pc' = "block"
    /\ UNCHANGED <<chain, db, wk, pers, start, end, height, mem, persOn, miner_addresses,
                   calls, reported, failedAt, proc0, rerun, hist, faults, argStart>>
    /\ UNCHANGED probe

\* get_block raises (the node exits non-zero or prints no JSON).
FetchFails ==
    /\ pc = "loop" /\ height <= end
    /\ ~is_block_processed(wk, height)
    /\ faults < MaxFaults
    /\ faults' = faults + 1
    /\ fetchLog' = fetchLog \cup {height}
    /\ HeightFailed
    /\ UNCHANGED <<chain, pers, start, end, persOn, calls, proc0, rerun, hist, argStart>>
    /\ UNCHANGED probe

\* What one iteration of process_block (its result r) does to the run: the
\* exception reaches the except branch of main, otherwise the loop goes on.
ProcessEntry_result(r, down) ==
    /\ down # {} => /\ faults < MaxFaults
                    /\ r.s.c.calls \cap down # {}
    /\ faults' = IF down = {} THEN faults ELSE faults + 1
    /\ pers' = r.s.c.pers
    /\ calls' = r.s.c.calls
    /\ IF r.err
       THEN HeightFailed
       ELSE /\ wk' = r.s.k.wk
            /\ db' = r.s.k.db
            /\ mem' = r.s.c.mem
            /\ miner_addresses' = r.s.miner_addresses
            /\ last' = r.last
            /\ idx' = idx + 1
            /\ UNCHANGED <<pc, height, block, known, reported, failedAt>>

\* One transaction of the block: resolve, classify, store. A node failure on
\* a previous transaction either raises (collect_vin_addresses) or leaves the
\* input total unavailable (fetch_input_total).
ProcessEntry ==
    /\ pc = "block" /\ idx <= Len(block.tx)
    /\ \E down \in SUBSET RefsOf(block.tx[idx]), ord \in IterOrders :
         ProcessEntry_result(
             ProcessTx([k |-> [wk |-> wk, db |-> db],
                        c |-> [mem |-> mem, max_size |-> LruMaxSize, pers |-> pers,
                               persOn |-> persOn, calls |-> calls],
                        miner_addresses |-> miner_addresses],
                       block.tx[idx], height, block.time, down, ord),
             down)
    /\ UNCHANGED <<chain, start, end, persOn, fetchLog, proc0, rerun, hist, argStart>>
    /\ UNCHANGED probe

\* The end of process_block: checkpoint the height and commit.
FinishBlock ==
    /\ pc = "block" /\ idx > Len(block.tx)
    /\ wk' = mark_block_processed(wk, height, block.time)
    /\ db' = wk'
    /\ height' = height + 1
    /\ pc' = "loop"
    /\ UNCHANGED <<chain, pers, start, end, block, idx, mem, persOn, miner_addresses,
                   known, last, rerun, hist, faults, argStart>>
    /\ RunLogsUnchanged
    /\ UNCHANGED probe

\* The loop ran through the range: close the connection, print "Done.".
EndScan ==
    /\ pc = "loop" /\ height > end
    /\ pc' = "done"
    /\ wk' = db
    /\ mem' = <<>> /\ miner_addresses' = {}
    /\ block' = NoBlock /\ idx' = 0 /\ known' = FALSE /\ last' = NoLast
    /\ UNCHANGED <<chain, db, pers, start, end, height, persOn, rerun, hist, faults,
                   argStart>>
    /\ RunLogsUnchanged
    /\ UNCHANGED probe

\* The process is terminated: what the connection had not committed is lost,
\* and so is the memory of the process; the cache file keeps what was written.
Kill ==
    /\ Running
    /\ faults < MaxFaults
    /\ faults' = faults + 1
    /\ pc' = "idle"
    /\ wk' = db
    /\ mem' = <<>>
    /\ miner_addresses' = {}
    /\ block' = NoBlock /\ idx' = 0 /\ height' = 0
    /\ known' = FALSE /\ last' = NoLast
    /\ calls' = {} /\ fetchLog' = {} /\ reported' = {} /\ failedAt' = {} /\ proc0' = {}
    /\ UNCHANGED <<chain, db, pers, start, end, persOn, rerun, hist, argStart>>
    /\ UNCHANGED probe

Next ==
    \/ BlockCountFails
    \/ MainStart
    \/ SkipProcessed
    \/ FetchBlock
    \/ FetchFails
    \/ ProcessEntry
    \/ FinishBlock
    \/ EndScan
    \/ Kill

Spec == Init /\ [][Next]_vars

\* ================================================================== claims
TxidsOf(b) == {b.tx[i].txid : i \in 1..Len(b.tx)}

\* The outcomes of transactions: every table but the ledger.
Outcomes(T) == [T EXCEPT !.processed_blocks = {}]

\* A step of process_block that classified and stored one transaction.
TxStored == pc = "block" /\ idx' = idx + 1

\* ---- C1
\* C1: block atomicity. In every committed state of the database, a height
\* of the ledger has the outcome of each of its transactions stored, and a
\* height that is not in the ledger has none of them stored (as a row, or as
\* the completing leg merged into a swap row).
C1_BlockAtomicity ==
    \A h \in 1..MaxHeight :
        IF h \in Heights(db)
        THEN TxidsOf(chain[h]) \subseteq StoredTxids(db)
        ELSE TxidsOf(chain[h]) \cap StoredTxids(db) = {}

\* ---- C2
\* The state of a fresh process on an empty database.
FreshState ==
    [k |-> [wk |-> EmptyTables, db |-> EmptyTables],
     c |-> [mem |-> <<>>, max_size |-> LruMaxSize, pers |-> {}, persOn |-> TRUE,
           calls |-> {}],
     miner_addresses |-> {pool_lookup[n] : n \in DOMAIN pool_lookup}]

\* The states process_block can leave after the entries i.. of a block when
\* no exception leaves it (a failed lookup of fetch_input_total does not).
RECURSIVE TxsDone(_, _, _, _, _)
TxsDone(S, entries, i, h, ts) ==
    IF i > Len(entries) THEN S
    ELSE LET R == {ProcessTx(s, entries[i], h, ts, down, ord) :
                     s \in S, ord \in IterOrders, down \in SUBSET RefsOf(entries[i])}
         IN  TxsDone({r.s : r \in {x \in R : ~x.err}}, entries, i + 1, h, ts)

\* The states one uninterrupted run of the loop of main can leave over h..e.
RECURSIVE ScanDone(_, _, _)
ScanDone(S, h, e) ==
    IF h > e THEN S
    ELSE ScanDone(
           UNION {IF is_block_processed(s.k.wk, h) THEN {s}
                  ELSE {[t EXCEPT !.k = Commit([t.k EXCEPT !.wk =
                                   mark_block_processed(@, h, chain[h].time)])]
                          : t \in TxsDone({s}, chain[h].tx, 1, h, chain[h].time)}
                    : s \in S},
           h + 1, e)

\* C2: interrupt/resume equivalence. When every run so far was over the same
\* range (the first of them on the empty database) and the last of them ran
\* through without a failure, the committed tables are those of one
\* uninterrupted scan of that range.
C2_ResumeEquivalence ==
    (pc = "done" /\ failedAt = {} /\ hist = "same")
        => db \in {s.k.db : s \in ScanDone({FreshState}, start, end)}

\* ---- C3
\* C3: scan idempotence. A run over [h, h] that follows a run over [h, h]
\* which completed without failure changes no committed table.
C3_ScanIdempotent ==
    [][(Running /\ rerun /\ start = end) => db' = db]_vars

\* The second run over [h, h] went through, and the first had stored rows.
C3_Witness ==
    /\ pc = "done" /\ rerun /\ start = end /\ failedAt = {}
    /\ start \in Heights(db)
    /\ db.daily_stats # {}

\* ---- C4
\* C4: re-processing is a no-op. While a block is processed whose txids were
\* all stored before, storing one of its transactions changes no category
\* row, no daily-aggregate row and no miner row.
C4_ReprocessNoOp ==
    [][(TxStored /\ known) => Outcomes(wk') = Outcomes(wk)]_vars

\* ---- C5
CategoryRows(T, cat) ==
    CASE cat = "coinbase" -> T.coinbase_txs
      [] cat = "coinbase_shielding" -> T.coinbase_shielding_txs
      [] cat = "dpow" -> T.dpow_txs
      [] cat = "atomic_swap" ->
           {r \in T.atomic_swap_txs : r.phase = "start" \/ ~IsNull(r.complete_txid)}
      [] cat = "turnstile" -> T.turnstile_txs
      [] cat = "unknown_transparent" -> T.unknown_transparent_txs
      [] cat = "shielded" -> T.shielded_txs

Categories ==
    {"coinbase", "coinbase_shielding", "dpow", "atomic_swap", "turnstile",
     "unknown_transparent", "shielded"}

DailyCount(T, date, label) ==
    IF \E r \in T.daily_stats : r.date = date /\ r.tx_type = label
    THEN (CHOOSE r \in T.daily_stats : r.date = date /\ r.tx_type = label).tx_count
    ELSE 0

\* C5: daily aggregate consistency. When every block so far was processed
\* successfully (no failure, no kill), the tx_count under (date, category)
\* is the number of rows of that category on that date; for atomic_swap the
\* rows that began as a start leg.
C5_DailyConsistency ==
    (faults = 0 /\ pc # "block") =>
        \A h \in 1..MaxHeight, cat \in Categories :
            LET date == utc_date(BlockTime(h))
            IN  DailyCount(db, date, cat)
                  = Cardinality({r \in CategoryRows(db, cat) : r.date = date})

\* ---- C6
\* The start rows a completing leg at the current height is matched with,
\* stored at a lower height.
EarlierStarts(addr) == {r \in SwapStarts(wk, addr) : r.block_height < height}

\* C6: swap reconciliation. When a complete leg with swap address A is
\* stored at height H2 and a row with phase=start and swap address A of a
\* height H1 < H2 exists, that row becomes phase=complete with the completing
\* transaction's id, height and timestamp, its total_out and fee are the sums
\* over both legs, and the table gets no row for the completing transaction.
C6_SwapReconciled ==
    [][(TxStored /\ last'.phase = "complete" /\ EarlierStarts(last'.swap_addr) # {}) =>
          /\ \A r \in EarlierStarts(last'.swap_addr) :
                \E r2 \in wk'.atomic_swap_txs :
                    /\ r2.txid = r.txid
                    /\ r2.phase = "complete"
                    /\ r2.complete_txid = last'.txid
                    /\ r2.complete_block_height = Some(height)
                    /\ r2.complete_timestamp = Some(block.time)
                    /\ r2.total_out = r.total_out + last'.total_out
                    /\ r2.fee = r.fee + last'.fee
          /\ {r.txid : r \in wk'.atomic_swap_txs} = {r.txid : r \in wk.atomic_swap_txs}
      ]_vars

\* A completing leg was just merged into a start row of a lower height, both
\* legs carrying a fee.
C6_Witness ==
    /\ pc = "block" /\ last.phase = "complete" /\ last.fee > 0
    /\ \E r \in wk.atomic_swap_txs :
          /\ r.complete_txid = last.txid
          /\ r.phase = "complete"
          /\ r.block_height < height
          /\ r.fee > last.fee

\* ---- C7
\* C7: unmatched completion. When a complete leg is stored and no row has
\* phase=start and its swap address, exactly one row is inserted, keyed by
\* the completing transaction's txid, with phase=complete.
C7_UnmatchedCompletion ==
    [][(TxStored /\ last'.phase = "complete" /\ SwapStarts(wk, last'.swap_addr) = {}) =>
          \E row \in wk'.atomic_swap_txs :
              /\ row.txid = last'.txid
              /\ row.phase = "complete"
              /\ row \notin wk.atomic_swap_txs
              /\ wk'.atomic_swap_txs = wk.atomic_swap_txs \cup {row}
      ]_vars

\* ---- C8
\* The resume point as the claim states it.
ResumePoint(T) ==
    IF Heights(T) # {} THEN MaxOf(Heights(T)) + 1
    ELSE IF T.coinbase_txs # {} THEN MaxOf({r.block_height : r \in T.coinbase_txs}) + 1
    ELSE 1

\* A step of main that chose the range of a run.
RangeChosen == Stopped /\ pc' \in {"loop", "exit1"} /\ faults' = faults

C9_ProcessedSkipped ==
    [][(pc = "loop" /\ height <= end /\ height \in Heights(wk)) =>
          /\ db' = db
          /\ wk' = wk
          /\ fetchLog' \subseteq fetchLog
          /\ calls' \subseteq calls
      ]_vars

\* The run went past a height of its range that was checkpointed before it
\* started, having asked no block so far.
C9_Witness ==
    /\ pc = "loop" /\ fetchLog = {}
    /\ \E h \in proc0 : start <= h /\ h < height

\* ---- C10
\* C10: stop on failure. Once a height h failed in a run, the run is over:
\* h is the only failed height, it is reported, it is not in the ledger, no
\* height above h was asked from the node, and no height above h was
\* checkpointed by the run.
C10_StopOnFailure ==
    failedAt # {} =>
        /\ pc = "done"
        /\ \E h \in failedAt :
              /\ failedAt = {h}
              /\ reported = {h}
              /\ height = h
              /\ h \notin Heights(db)
              /\ \A g \in fetchLog : g <= h
              /\ \A g \in Heights(db) \ proc0 : g < h

\* A run failed at a height with higher heights of its range left.
C10_Witness ==
    /\ pc = "done" /\ failedAt # {}
    /\ \E h \in failedAt : h < end /\ ~is_block_processed(db, h + 1)

\* ---- C11
\* The exit status of a process that ended: sys.exit(1) gives 1, a return
\* from main (after "Done.") gives 0.
exit_status == IF pc = "exit1" THEN 1 ELSE 0

\* C11: exit status. A scan that ended has exit status zero exactly when the
\* whole requested range was completed, and a non-zero status when a height
\* of the range failed.
C11_ExitStatus ==
    pc \in {"done", "exit1"} =>
        /\ (exit_status = 0) <=> (pc = "done" /\ failedAt = {})
        /\ failedAt # {} => exit_status # 0

\* ======================================================== single functions
\* The specifications below study one function at a time. probe holds the
\* arguments the function is applied to and, once applied, its result; the
\* scanner itself does not run in them.
scanVars == <<chain, db, wk, pers, pc, start, end, argStart, height, block, idx, mem,
              persOn, miner_addresses, calls, fetchLog, reported, failedAt, proc0,
              known, last, rerun, hist, faults>>

\* The scanner before any run, with a node that serves no block.
ScannerIdle ==
    /\ chain = <<>>
    /\ db = EmptyTables /\ wk = EmptyTables /\ pers = {}
    /\ pc = "idle"
    /\ start = 0 /\ end = 0 /\ height = 0 /\ argStart = Null
    /\ block = NoBlock /\ idx = 0
    /\ mem = <<>> /\ persOn = FALSE /\ miner_addresses = {}
    /\ calls = {} /\ fetchLog = {} /\ reported = {} /\ failedAt = {} /\ proc0 = {}
    /\ known = FALSE /\ last = NoLast /\ rerun = FALSE /\ hist = "none" /\ faults = 0

\* ------------------------------------------------------------- classify_tx
\* Outputs a decoded transaction can carry.
MaxOuts == 1

OutKinds ==
    {Out(2, "pubkeyhash", 1, <<Rx>>), Out(2, "scripthash", 1, <<bA>>),
     Out(2, "pubkey", 2, <<Rx>>), Out(2, "pubkeyhash", 1, <<bB>>)}

RECURSIVE SeqsUpTo(_, _)
SeqsUpTo(S, n) ==
    IF n = 0 THEN {<<>>}
    ELSE SeqsUpTo(S, n - 1) \cup
         {Append(q, x) : q \in {r \in SeqsUpTo(S, n - 1) : Len(r) = n - 1}, x \in S}

\* Decoded transactions: no input, a coinbase input, a coinbase marker that
\* is not on the first input; no output or some; no shielded part, a spend,
\* a value balance, a joinsplit.
ClassifyTxs ==
    {MkTx(<<1, "p">>, vin, vout, sh[1], 0, sh[2], sh[3]) :
        vin \in {<<>>, <<VinCoinbase>>, <<VinRef(<<0, "Fx">>, 0), VinCoinbase>>},
        vout \in SeqsUpTo(OutKinds, MaxOuts),
        sh \in {<<0, <<>>, 0>>, <<1, <<>>, 0>>, <<0, <<>>, -2>>,
                <<0, <<[vpub_old |-> 1, vpub_new |-> 0]>>, 0>>}}

\* Notary lookups: none, one notary, two notaries.
ClassifyLookups ==
    {[a \in N |-> [name |-> IF a = Rn THEN "alice" ELSE "bob", season |-> "S3", address |-> a]]
        : N \in {{}, {Rn}, {Rn, Rx}}}

\* Block timestamps: none (0), the last second before the migration window,
\* its first second, the first second and the noon of 2019-01-31, the first
\* second of 2019-02-01, and the time of block 1.
ClassifyTimes ==
    {0, TurnstileFrom - 1, TurnstileFrom, TurnstileTo, TurnstileTo + DaySeconds \div 2,
     TurnstileTo + DaySeconds, BlockTime(1)}

ClassifyInputs ==
    [tx : ClassifyTxs,
     vin_addrs : SUBSET {Rm, Rn, bA},
     vout_addrs : {{}, {Rx}, {bA}, {bA, bB}},
     lookup : ClassifyLookups,
     miner_addresses : {{}, {Rm}},
     timestamp : ClassifyTimes,
     ord : IterOrders]

ClassifyInit ==
    /\ ScannerIdle
    /\ \E a \in ClassifyInputs : probe = [fn |-> "classify_tx", done |-> FALSE, in |-> a, out |-> Null]

\* classify_tx applied to the arguments of the probe.
Classify ==
    /\ ~probe.done
    /\ probe' = [probe EXCEPT
                   !.done = TRUE,
                   !.out = classify_tx(probe.in.tx, probe.in.vin_addrs, probe.in.vout_addrs,
                                       probe.in.lookup, probe.in.miner_addresses,
                                       probe.in.timestamp, probe.in.ord)]
    /\ UNCHANGED scanVars

ClassifyNext == Classify

ClassifySpec == ClassifyInit /\ [][ClassifyNext]_vars

\* ---- C12
\* The labels of the taxonomy a transaction can be given; atomic_swap comes
\* as the start leg (atomic_swap) or the completing leg (atomic_swap_complete).
ClassifyLabels ==
    {"coinbase", "dpow", "atomic_swap", "atomic_swap_complete", "turnstile",
     "coinbase_shielding", "unknown_transparent", "shielded"}

\* C12: classification totality. classify_tx answers every decoded
\* transaction, address sets, notary lookup, miner set and timestamp with one
\* label of the taxonomy, never with the generic label "unknown"; an atomic
\* swap is a start or a complete leg, the other labels carry no phase.
C12_ClassifyTotal ==
    probe.done =>
        /\ probe.out.tx_type \in ClassifyLabels
        /\ probe.out.tx_type # "unknown"
        /\ probe.out.phase =
             (CASE probe.out.tx_type = "atomic_swap" -> "start"
                [] probe.out.tx_type = "atomic_swap_complete" -> "complete"
                [] OTHER -> "")

\* A transaction with no input and no output, having a shielded part, with
\* a multisig-like input address, was classified.
C12_Witness ==
    /\ probe.done
    /\ probe.in.tx.vin = <<>> /\ probe.in.tx.vout = <<>>
    /\ has_shielded_parts(probe.in.tx)
    /\ bA \in probe.in.vin_addrs
    /\ probe.out.tx_type = "atomic_swap_complete"

\* ---- C13
\* The conditions of the nine rules, in their order, on the arguments a.
RuleHolds(a) ==
    LET coinbase == is_coinbase_tx(a.tx)
        notary == (a.vin_addrs \cup a.vout_addrs) \cap DOMAIN a.lookup # {}
        shielded == has_shielded_parts(a.tx)
        ms_out == multisig_like_out(a.tx)
        ms_in == \E x \in a.vin_addrs : StartsWithB(x)
        t_out == has_transparent_io(a.tx)
        t_in == a.vin_addrs # {}
    IN  << coinbase,
           notary,
           shielded /\ ms_out,
           shielded /\ ms_in /\ ~t_out,
           shielded /\ t_out /\ ~ms_out /\ ~t_in,
           shielded /\ t_in /\ ~t_out,
           t_out /\ (shielded \/ ms_out),
           t_out,
           TRUE >>

\* The first rule that matches.
FirstRule(a) ==
    CHOOSE i \in 1..9 : RuleHolds(a)[i] /\ \A j \in 1..(i - 1) : ~RuleHolds(a)[j]

\* The labels and the phase each rule gives.
RuleLabels ==
    << {"coinbase"}, {"dpow"}, {"atomic_swap"}, {"atomic_swap_complete"}, {"turnstile"},
       {"coinbase_shielding", "turnstile", "unknown_transparent"},
       {"atomic_swap"}, {"unknown_transparent"}, {"shielded"} >>
RulePhase == << "", "", "start", "complete", "", "", "start", "", "" >>

\* C13: classifier rule order. classify_tx gives the label and the phase of
\* the first matching rule of the nine-rule list; the notary it returns is
\* one of the notaries among the addresses under rule 2 and none otherwise.
\* A coinbase transaction paying a notary is coinbase, and a notary match
\* wins over the shielded and multisig rules.
C13_RuleOrder ==
    probe.done =>
        LET a == probe.in
            i == FirstRule(a)
        IN  /\ probe.out.tx_type \in RuleLabels[i]
            /\ probe.out.phase = RulePhase[i]
            /\ IF i = 2
               THEN probe.out.notary \in
                      {a.lookup[x] : x \in (a.vin_addrs \cup a.vout_addrs) \cap DOMAIN a.lookup}
               ELSE probe.out.notary = NoNotary

\* A transaction with a shielded part and a multisig-like output that also
\* touches a notary address was classified as dpow.
C13_Witness ==
    /\ probe.done
    /\ has_shielded_parts(probe.in.tx) /\ multisig_like_out(probe.in.tx)
    /\ ~is_coinbase_tx(probe.in.tx)
    /\ probe.out.tx_type = "dpow"
    /\ probe.out.notary.name = "bob"

\* ------------------------------------------------------------- compute_fee
\* Amounts of the fee specification range over 0..MaxAmount, the value
\* balance over -MaxAmount..MaxAmount.
MaxAmount == 2
\* A transaction of the fee specification has up to MaxJoinsplits joinsplits.
MaxJoinsplits == 2

FeeInputs ==
    [total_in : {Null} \cup {Some(n) : n \in 0..MaxAmount},
     total_out : 0..MaxAmount,
     tx : {MkTx(<<1, "p">>, <<>>, <<>>, 0, 0, js, vb) :
             js \in SeqsUpTo([vpub_old : 0..MaxAmount, vpub_new : 0..MaxAmount],
                              MaxJoinsplits),
             vb \in (0 - MaxAmount)..MaxAmount}]

FeeInit ==
    /\ ScannerIdle
    /\ \E a \in FeeInputs : probe = [fn |-> "compute_fee", done |-> FALSE, in |-> a, out |-> Null]

\* compute_fee applied to the arguments of the probe.
Fee ==
    /\ ~probe.done
    /\ probe' = [probe EXCEPT
                   !.done = TRUE,
                   !.out = compute_fee(probe.in.total_in, probe.in.total_out, probe.in.tx)]
    /\ UNCHANGED scanVars

FeeNext == Fee

FeeSpec == FeeInit /\ [][FeeNext]_vars

LookupFailed ==
    /\ pc = "block" /\ idx <= Len(block.tx) /\ block.tx[idx].isdict
    /\ faults' = faults + 1
    /\ pc' # "idle"

\* C15: unresolved inputs do not abort a block. When a previous transaction
\* referenced by an input cannot be resolved, the transaction is still
\* classified and stored and the height does not fail.
C15_UnresolvedInputTolerated ==
    [][LookupFailed => (failedAt' = {} /\ pc' = "block" /\ idx' = idx + 1)]_vars

\* ---------------------------------------------------------------- LRUCache
\* Keys, capacities and operations of the cache specification.
MaxKeys == 3
MaxCap == 2
MaxOps == 5

LruKeysOf(data) == {data[i].k : i \in 1..Len(data)}

\* An LRUCache(max_size) just constructed. stamp[k] is the time of the last
\* access of k (a get that hit it, or a set) while k is in the cache; op is
\* the last operation.
LruInit ==
    /\ ScannerIdle
    /\ \E n \in 0..MaxCap :
         probe = [fn |-> "LRUCache", max_size |-> n, data |-> <<>>, clock |-> 0,
                  stamp |-> [k \in 1..MaxKeys |-> 0],
                  op |-> [kind |-> "new", key |-> 0, hit |-> FALSE]]

\* cache.get(key)
LruGetOp ==
    /\ probe.clock < MaxOps
    /\ \E key \in 1..MaxKeys :
         LET g == LruGet(probe.data, key)
         IN  probe' = [probe EXCEPT
                         !.data = g.data,
                         !.clock = @ + 1,
                         !.stamp = IF g.hit THEN [@ EXCEPT ![key] = probe.clock + 1] ELSE @,
                         !.op = [kind |-> "get", key |-> key, hit |-> g.hit]]
    /\ UNCHANGED scanVars

\* cache.set(key, value)
LruSetOp ==
    /\ probe.clock < MaxOps
    /\ \E key \in 1..MaxKeys :
         LET d == LruSet(probe.data, key, "tx", probe.max_size)
         IN  probe' = [probe EXCEPT
                         !.data = d,
                         !.clock = @ + 1,
                         !.stamp = [k \in 1..MaxKeys |->
                                      IF k \notin LruKeysOf(d) THEN 0
                                      ELSE IF k = key THEN probe.clock + 1
                                      ELSE probe.stamp[k]],
                         !.op = [kind |-> "set", key |-> key, hit |-> LruHas(probe.data, key)]]
    /\ UNCHANGED scanVars

LruNext == LruGetOp \/ LruSetOp

LruSpec == LruInit /\ [][LruNext]_vars

\* ---- C16
\* C16: LRU capacity bound. After every get and set the cache holds at most
\* max_size entries, and a set of a key that is present removes no entry.
C16_LruCapacity ==
    [][/\ Len(probe'.data) <= probe.max_size
       /\ Cardinality(LruKeysOf(probe'.data)) = Len(probe'.data)
       /\ (probe'.op.kind = "set" /\ probe'.op.hit) =>
             LruKeysOf(probe'.data) = LruKeysOf(probe.data)
      ]_vars

\* A full cache of the largest capacity, smaller than the number of keys,
\* was set on a key it holds.
C16_Witness ==
    /\ probe.op.kind = "set" /\ probe.op.hit
    /\ Len(probe.data) = probe.max_size
    /\ probe.max_size = MaxCap
    /\ \E k \in 1..MaxKeys : k \notin LruKeysOf(probe.data)

\* ---- C17
\* The entry whose last access is the oldest.
LeastRecent(data, stamp) ==
    CHOOSE k \in LruKeysOf(data) : \A j \in LruKeysOf(data) : stamp[k] <= stamp[j]

\* C17: LRU eviction order. A set of a new key on a full cache of capacity
\* >= 1 removes exactly the entry whose last access (hit by a get, or set)
\* is the oldest, and keeps the key just set; no other operation removes an
\* entry.
C17_LruEviction ==
    [][IF probe'.op.kind = "set" /\ ~probe'.op.hit
          /\ Len(probe.data) = probe.max_size /\ probe.max_size >= 1
       THEN LruKeysOf(probe'.data) =
              (LruKeysOf(probe.data) \ {LeastRecent(probe.data, probe.stamp)})
                \cup {probe'.op.key}
       ELSE probe.max_size >= 1 => LruKeysOf(probe.data) \subseteq LruKeysOf(probe'.data)
      ]_vars

\* An overflow evicted an entry that had been set after the others but was
\* not the last one a get had hit.
C17_Witness ==
    /\ probe.op.kind = "set" /\ ~probe.op.hit
    /\ probe.max_size = 2 /\ Len(probe.data) = 2
    /\ probe.clock >= 4
    /\ \E k \in LruKeysOf(probe.data) : k # probe.op.key /\ probe.stamp[k] = probe.clock - 1
    /\ probe.data[1].k # probe.op.key

\* ------------------------------------------------------------- get_prev_tx
\* The txids resolved in the specification of get_prev_tx.
ResolveTxids == {<<0, "Fm">>, <<0, "Fb">>, <<0, "Fx">>}

\* A process with an empty memory tier of capacity 1..MaxCap and an empty
\* cache file. session: the txids resolved by this process; stored: the
\* txids resolved by some process while its persistent tier was available;
\* op: the last resolve.
ResolveInit ==
    /\ ScannerIdle
    /\ \E n \in 1..MaxCap, on \in BOOLEAN :
         probe = [fn |-> "get_prev_tx", clock |-> 0,
                  c |-> [mem |-> <<>>, max_size |-> n, pers |-> {}, persOn |-> on,
                         calls |-> {}],
                  session |-> {}, stored |-> {},
                  op |-> [txid |-> Null, err |-> FALSE, node |-> FALSE]]

\* get_prev_tx(txid, ...), the node answering or failing.
Resolve ==
    /\ probe.clock < MaxOps
    /\ \E txid \in ResolveTxids : \E down \in {{}, {txid}} :
         LET r == get_prev_tx(txid, down, [probe.c EXCEPT !.calls = {}])
         IN  probe' = [probe EXCEPT
                         !.clock = @ + 1,
                         !.c = r.c,
                         !.session = IF r.err THEN @ ELSE @ \cup {txid},
                         !.stored = IF r.err \/ ~probe.c.persOn THEN @ ELSE @ \cup {txid},
                         !.op = [txid |-> txid, err |-> r.err, node |-> r.c.calls # {}]]
    /\ UNCHANGED scanVars

\* The process ends and a new one starts: the memory tier is empty, the
\* cache file is kept, and shelve.open succeeds or fails.
ResolveRestart ==
    /\ probe.clock < MaxOps
    /\ \E on \in BOOLEAN :
         probe' = [probe EXCEPT
                     !.clock = @ + 1,
                     !.c = [@ EXCEPT !.mem = <<>>, !.persOn = on, !.calls = {}],
                     !.session = {},
                     !.op = [txid |-> Null, err |-> FALSE, node |-> FALSE]]
    /\ UNCHANGED scanVars

ResolveNext == Resolve \/ ResolveRestart

ResolveSpec == ResolveInit /\ [][ResolveNext]_vars

\* ---- C18
\* A resolve step, and what the tiers held before it.
Resolved == probe'.op.txid # Null
InMemory(t) == LruHas(probe.c.mem, t)
InPersistent(t) == probe.c.persOn /\ PersHas(probe.c.pers, t)

\* The tier order, the promotion of a persistent hit and the filling of the
\* tiers by a node fetch.
ResolveOrder ==
    LET t == probe'.op.txid IN
    /\ probe'.op.node => (~InMemory(t) /\ ~InPersistent(t))
    /\ (~InMemory(t) /\ InPersistent(t)) =>
          (~probe'.op.node /\ ~probe'.op.err /\ LruHas(probe'.c.mem, t))
    /\ (probe'.op.node /\ ~probe'.op.err) =>
          /\ LruHas(probe'.c.mem, t)
          /\ probe.c.persOn => PersHas(probe'.c.pers, t)

SpentValue(tx) ==
    SumSeq([i \in 1..Len(tx.vin) |->
              IF IsNull(tx.vin[i].txid) THEN 0
              ELSE NodeTx(tx.vin[i].txid).vout[tx.vin[i].vout[1] + 1].value])

\* A block of one coinbase transaction and one transparent transaction that
\* pays a known notary address.
NotaryBlock(b) ==
    /\ Len(b.tx) = 2
    /\ is_coinbase_tx(b.tx[1].tx)
    /\ ~is_coinbase_tx(b.tx[2].tx)
    /\ ~has_shielded_parts(b.tx[2].tx)
    /\ collect_vout_addresses(b.tx[2].tx) \cap DOMAIN notary_lookup # {}

\* process_block returns: the height is checkpointed and committed.
BlockDone == pc = "block" /\ pc' = "loop" /\ height' = height + 1

DailyRows(T, date, label) == {r \in T.daily_stats : r.date = date /\ r.tx_type = label}

DailyAmount(T, date, label) ==
    IF DailyRows(T, date, label) = {} THEN 0
    ELSE (CHOOSE r \in DailyRows(T, date, label) : TRUE).total_amount

DailyFee(T, date, label) ==
    IF DailyRows(T, date, label) = {} THEN 0
    ELSE (CHOOSE r \in DailyRows(T, date, label) : TRUE).total_fee

Stdouts ==
    {[kind |-> k, v |-> 0] : k \in {"object", "real", "text", "empty"}}
      \cup {[kind |-> "number", v |-> n] : n \in 0..MaxHeight}

\* The finished subprocess: its exit status and its output.
Replies == [returncode : {0, 1}, stdout : Stdouts]

Raised == [err |-> TRUE, val |-> Null]
Returned(v) == [err |-> FALSE, val |-> Some(v)]

\* json.loads: the value of a JSON document, JSONDecodeError otherwise.
json_loads(out) ==
    CASE out.kind = "object" -> Returned([type |-> "dict", v |-> out.v])
      [] out.kind = "number" -> Returned([type |-> "int", v |-> out.v])
      [] out.kind = "real"   -> Returned([type |-> "float", v |-> out.v])
      [] OTHER               -> Raised

\* int() of a string: the integer of an integer literal, ValueError otherwise.
int_of(x) ==
    IF x.type = "str" /\ x.v.kind = "number"
    THEN Returned([type |-> "int", v |-> x.v.v])
    ELSE Raised

\* (mutant) the exit status of the subprocess is not looked at.
run_cli_ExitIgnored(reply, parse_json) ==
    IF parse_json THEN json_loads(reply.stdout)
    ELSE Returned([type |-> "str", v |-> reply.stdout])

\* run_cli: RuntimeError on a non-zero exit, else the parsed output, or the
\* output as it is when parse_json is off.
run_cli(reply, parse_json) ==
    IF reply.returncode # 0 THEN Raised
    ELSE IF parse_json THEN json_loads(reply.stdout)
    ELSE Returned([type |-> "str", v |-> reply.stdout])

get_block(reply) == run_cli(reply, TRUE)

get_decoded_tx(reply) == run_cli(reply, TRUE)

\* int(run_cli(cli, "getblockcount", parse_json=False)) in the try of main.
query_block_count(reply) ==
    IF run_cli(reply, FALSE).err THEN Raised
    ELSE int_of(run_cli(reply, FALSE).val[1])

\* The callers of get_decoded_tx (through get_prev_tx) in process_block.
TxCallers == {"collect_vin_addresses", "fetch_input_total"}

NoCall == [cmd |-> "", height |-> 0, caller |-> "", reply |-> Null, res |-> Raised]

\* main as the controller of the node calls, scanning from height 1 to the
\* block count with empty caches and an empty ledger.
CliInit ==
    /\ ScannerIdle
    /\ probe = [fn |-> "run_cli", pc |-> "start", height |-> 0, end |-> 0,
                call |-> NoCall, fetched |-> {}, processed |-> {},
                failedAt |-> {}, exit |-> Null]

\* The block count query, then the range check.
CliBlockCount ==
    /\ probe.pc = "start"
    /\ \E reply \in Replies :
         probe' = [probe EXCEPT
            !.call = [cmd |-> "getblockcount", height |-> 0, caller |-> "main",
                      reply |-> Some(reply), res |-> query_block_count(reply)],
            !.pc = IF query_block_count(reply).err THEN "exit1"
                   ELSE IF query_block_count(reply).val[1].v < 1 THEN "exit1"
                   ELSE "loop",
            !.exit = IF query_block_count(reply).err THEN Some(1)
                     ELSE IF query_block_count(reply).val[1].v < 1 THEN Some(1)
                     ELSE Null,
            !.height = 1,
            !.end = IF query_block_count(reply).err THEN 0
                    ELSE query_block_count(reply).val[1].v]
    /\ UNCHANGED scanVars

\* get_block of the loop: a raise, or a value that is no block (process_block
\* raises on it), fails the height and leaves the loop.
CliGetBlock ==
    /\ probe.pc = "loop" /\ probe.height <= probe.end
    /\ \E reply \in Replies :
         probe' = [probe EXCEPT
            !.call = [cmd |-> "getblock", height |-> probe.height, caller |-> "main",
                      reply |-> Some(reply), res |-> get_block(reply)],
            !.fetched = @ \cup {probe.height},
            !.failedAt = IF get_block(reply).err THEN @ \cup {probe.height}
                         ELSE IF get_block(reply).val[1].type # "dict"
                         THEN @ \cup {probe.height}
                         ELSE @,
            !.pc = IF get_block(reply).err THEN "done"
                   ELSE IF get_block(reply).val[1].type # "dict" THEN "done"
                   ELSE "block",
            !.exit = IF get_block(reply).err THEN Some(0)
                     ELSE IF get_block(reply).val[1].type # "dict" THEN Some(0)
                     ELSE Null]
    /\ UNCHANGED scanVars

\* get_decoded_tx for an input of a transaction of the block: a raise leaves
\* collect_vin_addresses and fails the height; fetch_input_total catches it.
CliGetTx ==
    /\ probe.pc = "block"
    /\ probe.call.cmd = "getblock"
    /\ \E reply \in Replies, caller \in TxCallers :
         probe' = [probe EXCEPT
            !.call = [cmd |-> "getrawtransaction", height |-> probe.height,
                      caller |-> caller, reply |-> Some(reply),
                      res |-> get_decoded_tx(reply)],
            !.failedAt = IF get_decoded_tx(reply).err /\ caller = "collect_vin_addresses"
                         THEN @ \cup {probe.height} ELSE @,
            !.pc = IF get_decoded_tx(reply).err /\ caller = "collect_vin_addresses"
                   THEN "done" ELSE "block",
            !.exit = IF get_decoded_tx(reply).err /\ caller = "collect_vin_addresses"
                     THEN Some(0) ELSE Null]
    /\ UNCHANGED scanVars

\* process_block returns: the height is checkpointed.
CliBlockDone ==
    /\ probe.pc = "block"
    /\ probe' = [probe EXCEPT !.processed = @ \cup {probe.height},
                              !.height = @ + 1, !.pc = "loop"]
    /\ UNCHANGED scanVars

\* The range is exhausted.
CliEndScan ==
    /\ probe.pc = "loop" /\ probe.height > probe.end
    /\ probe' = [probe EXCEPT !.pc = "done", !.exit = Some(0)]
    /\ UNCHANGED scanVars

CliNext == CliBlockCount \/ CliGetBlock \/ CliGetTx \/ CliBlockDone \/ CliEndScan

CliSpec == CliInit /\ [][CliNext]_vars

\* ---- C20
\* The subprocess of the call failed: non-zero exit, or an output that is no
\* JSON document.
ParseableJson(out) == out.kind \in {"object", "number", "real"}
NodeFailure(reply) == reply.returncode # 0 \/ ~ParseableJson(reply.stdout)

MostRecent(S) == CHOOSE r \in S : \A q \in S : q.block_height <= r.block_height

\* C21: single-record reconciliation. When a complete leg with swap address
\* A is stored and several rows have phase=start and swap address A, the most
\* recent of them becomes phase=complete with the completing transaction's
\* id, and every other start row of A is left as it was.
C21_SingleReconciliation ==
    [][(TxStored /\ last'.phase = "complete"
          /\ Cardinality(SwapStarts(wk, last'.swap_addr)) > 1) =>
          /\ \E r2 \in wk'.atomic_swap_txs :
                /\ r2.txid = MostRecent(SwapStarts(wk, last'.swap_addr)).txid
                /\ r2.phase = "complete"
                /\ r2.complete_txid = last'.txid
          /\ \A r \in SwapStarts(wk, last'.swap_addr) :
                r # MostRecent(SwapStarts(wk, last'.swap_addr)) =>
                    r \in wk'.atomic_swap_txs
      ]_vars

\* ---- C22
\* The fee as the formula states it, before clamping.
FeeFormula(a) ==
    (IF a.total_in = Null THEN 0 ELSE a.total_in[1]) - a.total_out
      - SumSeq([i \in 1..Len(a.tx.vjoinsplit) |-> a.tx.vjoinsplit[i].vpub_old])
      + SumSeq([i \in 1..Len(a.tx.vjoinsplit) |-> a.tx.vjoinsplit[i].vpub_new])
      + a.tx.valueBalance

\* C22: fee formula. compute_fee returns max(0, totalIn - totalOut - sum of
\* vpub_old + sum of vpub_new + valueBalance); an unavailable totalIn counts
\* as 0, and so do a transaction without joinsplits and a zero valueBalance.
C22_FeeFormula ==
    probe.done =>
        probe.out = IF FeeFormula(probe.in) > 0 THEN FeeFormula(probe.in) ELSE 0

\* The fee of a transaction with two joinsplits whose sides differ was
\* computed and is positive.
C22_Witness ==
    /\ probe.done
    /\ Len(probe.in.tx.vjoinsplit) = 2
    /\ probe.in.tx.vjoinsplit[1].vpub_old > probe.in.tx.vjoinsplit[1].vpub_new
    /\ probe.in.tx.vjoinsplit[2].vpub_new > 0
    /\ probe.in.total_in # Null
    /\ probe.out > 0

\* ------------------------------------------------- total output value
\* Transactions with up to MaxValueOuts transparent outputs and at most one
\* shielded output the node decrypted (decryptedoutputs), with its address
\* and its value.
MaxValueOuts == 2

ValueTxs ==
    { [MkTx(<<1, "p">>, <<>>, vout, 1, 1, <<>>, 0) EXCEPT !.decryptedoutputs = dec] :
        vout \in SeqsUpTo({Out(v, "pubkeyhash", 1, <<Rx>>) : v \in 0..MaxAmount},
                          MaxValueOuts),
        dec \in SeqsUpTo([address : {Null, Rx}, value : 0..MaxAmount], 1) }

ValueInit ==
    /\ ScannerIdle
    /\ \E tx \in ValueTxs, total_in \in {Null} \cup {Some(n) : n \in 0..MaxAmount} :
         probe = [fn |-> "sum_vout_values", done |-> FALSE,
                  in |-> [tx |-> tx, total_in |-> total_in], out |-> Null]

\* The values process_block computes for a decoded transaction: its total
\* output and, from it, its fee.
Value ==
    /\ ~probe.done
    /\ probe' = [probe EXCEPT
                   !.done = TRUE,
                   !.out = [total_out |-> sum_vout_values(probe.in.tx),
                            fee |-> compute_fee(probe.in.total_in,
                                                sum_vout_values(probe.in.tx),
                                                probe.in.tx)]]
    /\ UNCHANGED scanVars

ValueNext == Value

ValueSpec == ValueInit /\ [][ValueNext]_vars

\* ---- C23
\* C23: total output value. The total output value computed for a
\* transaction is the sum of its transparent output values plus the values of
\* the shielded-decrypted outputs present on it.
C23_TotalOutput ==
    probe.done =>
        probe.out.total_out =
            SumSeq([i \in 1..Len(probe.in.tx.vout) |-> probe.in.tx.vout[i].value])
              + SumSeq([i \in 1..Len(probe.in.tx.decryptedoutputs) |->
                          probe.in.tx.decryptedoutputs[i].value])

\* ---- C24
\* The rows with a total_in column that a step wrote: inserted or rewritten.
WrittenTotals ==
    (wk'.coinbase_shielding_txs \ wk.coinbase_shielding_txs)
      \cup (wk'.dpow_txs \ wk.dpow_txs)
      \cup (wk'.atomic_swap_txs \ wk.atomic_swap_txs)
      \cup (wk'.turnstile_txs \ wk.turnstile_txs)
      \cup (wk'.unknown_transparent_txs \ wk.unknown_transparent_txs)

\* C24: unavailable input totals stay unavailable. When a transaction is
\* stored whose input total is unavailable (a previous transaction could not
\* be resolved), every row written for it has total_in unavailable, never a
\* number; also the start row a swap completion is merged into.
C24_UnavailableStays ==
    [][(TxStored /\ last'.txid # Null /\ last'.total_in = Null) =>
          \A r \in WrittenTotals : r.total_in = Null]_vars

\* ---- C25
MinerCount(T, a) ==
    IF \E r \in T.miners : r.address = a
    THEN (CHOOSE r \in T.miners : r.address = a).tx_count ELSE 0

MinerAmount(T, a) ==
    IF \E r \in T.miners : r.address = a
    THEN (CHOOSE r \in T.miners : r.address = a).total_amount ELSE 0

\* C25: miner accounting. After a coinbase transaction is stored, every
\* address that receives one of its outputs has a miner row with one more
\* transaction than before, an amount not below the one before, and the
\* block timestamp as last_seen.
C25_MinerAccounting ==
    [][(TxStored /\ last'.tx_type = "coinbase") =>
          \A a \in collect_vout_addresses(block.tx[idx].tx) :
              \E r \in wk'.miners :
                  /\ r.address = a
                  /\ r.tx_count = MinerCount(wk, a) + 1
                  /\ r.total_amount >= MinerAmount(wk, a)
                  /\ r.last_seen = block.time]_vars

\* ---- C26
\* C26: the persistent tier never evicts. Every entry of the persistent tier
\* is still there, with its value, after any resolve (served from memory,
\* from the persistent tier or from the node, with or without an eviction
\* from the memory tier) and after any restart; the tier changes only by a
\* resolve that fetched the transaction from the node successfully, and then
\* by that transaction's entry alone.
C26_PersistentKeeps ==
    [][/\ \A e \in probe.c.pers : e \in probe'.c.pers
       /\ probe'.c.pers # probe.c.pers =>
             /\ Resolved /\ probe'.op.node /\ ~probe'.op.err
             /\ probe'.c.pers = probe.c.pers \cup
                   {[k |-> probe'.op.txid, v |-> NodeTx(probe'.op.txid)]}
      ]_vars

\* The persistent tier holds every transaction resolved so far while the
\* memory tier of capacity 1 evicted all but the last, in a process started
\* after the first writes.
C26_Witness ==
    /\ Cardinality(probe.c.pers) = Cardinality(ResolveTxids)
    /\ probe.c.max_size = 1
    /\ Len(probe.c.mem) = 1
    /\ probe.session # {}
    /\ probe.session # probe.stored

\* ---- C27
\* C27: completions do not count. Storing a transaction classified as a swap
\* complete leg, merged into a start row or inserted as a row of its own,
\* leaves the daily aggregates as they were; a step that changes a row of
\* the atomic_swap aggregates stored a start leg.
C27_CompletionsNotCounted ==
    [][/\ (TxStored /\ last'.phase = "complete") => wk'.daily_stats = wk.daily_stats
       /\ (TxStored /\ \E d \in {utc_date(BlockTime(h)) : h \in 1..MaxHeight} :
              DailyRows(wk', d, "atomic_swap") # DailyRows(wk, d, "atomic_swap"))
            => (last'.tx_type = "atomic_swap" /\ last'.phase = "start")
      ]_vars

\* A complete leg without a start row was just stored as a row of its own,
\* on a date that has other aggregates and no atomic_swap aggregate.
C27_Witness ==
    /\ pc = "block" /\ last.phase = "complete"
    /\ \E r \in wk.atomic_swap_txs : r.txid = last.txid /\ r.phase = "complete"
    /\ wk.daily_stats # {}
    /\ DailyRows(wk, utc_date(block.time), "atomic_swap") = {}

\* ---- C28
\* The tables of the categories that are not atomic swaps.
PlainRows(T) ==
    << T.coinbase_txs, T.coinbase_shielding_txs, T.dpow_txs, T.turnstile_txs,
       T.unknown_transparent_txs, T.unknown_txs, T.shielded_txs >>

\* From tables T to tables U: no category row and no ledger entry is gone, no
\* row of a plain category differs, and a swap row is as it was or went from
\* phase=start to phase=complete.
Lifecycle(T, U) ==
    /\ \A i \in 1..Len(PlainRows(T)) : PlainRows(T)[i] \subseteq PlainRows(U)[i]
    /\ T.processed_blocks \subseteq U.processed_blocks
    /\ \A r \in T.atomic_swap_txs :
          \E r2 \in U.atomic_swap_txs :
              /\ r2.txid = r.txid
              /\ r2 = r \/ (r.phase = "start" /\ r2.phase = "complete")
    /\ \A r \in T.atomic_swap_txs : r.phase = "complete" => r \in U.atomic_swap_txs

\* C28: record lifecycle. No step of a scan removes a row of a category
\* table or a ledger entry from the committed database, or changes a row of
\* a category other than atomic swaps; a swap row changes only from
\* phase=start to phase=complete, and a row with phase=complete is never
\* changed again. The same holds for what the connection sees while it
\* stores the transactions of a block and checkpoints it.
C28_RecordLifecycle ==
    [][/\ Lifecycle(db, db')
       /\ (TxStored \/ BlockDone) => Lifecycle(wk, wk')
      ]_vars

\* A complete leg was just stored, after a failure or a kill happened, and
\* the committed database holds a completed swap row next to coinbase rows
\* and ledger entries.
C28_Witness ==
    /\ pc = "block" /\ last.phase = "complete" /\ faults > 0
    /\ \E r \in db.atomic_swap_txs : r.phase = "complete" /\ r.complete_txid # Null
    /\ db.coinbase_txs # {}
    /\ db.processed_blocks # {}

\* ---- C29
\* The arguments reach the rule of transparent inputs into shielded outputs
\* with no input of a known miner: no earlier rule of classify_tx applies.
ShieldingByOthers(a) ==
    /\ ~is_coinbase_tx(a.tx)
    /\ (a.vin_addrs \cup a.vout_addrs) \cap DOMAIN a.lookup = {}
    /\ has_shielded_parts(a.tx)
    /\ a.vin_addrs # {}
    /\ ~has_transparent_io(a.tx)
    /\ ~multisig_like_out(a.tx)
    /\ ~\E x \in a.vin_addrs : StartsWithB(x)
    /\ a.vin_addrs \cap a.miner_addresses = {}

\* The calendar days 2018-12-15 to 2019-01-31 UTC, both included.
InMigrationDays(ts) ==
    /\ utc_date(TurnstileFrom) <= utc_date(ts)
    /\ utc_date(ts) <= utc_date(TurnstileTo)

\* C29: migration window. A transaction with shielded fields, transparent
\* inputs, no transparent output and no input address of a known miner is
\* classified turnstile exactly when the block timestamp lies on a day from
\* 2018-12-15 to 2019-01-31 UTC, and unknown_transparent otherwise.
C29_MigrationWindow ==
    (probe.done /\ ShieldingByOthers(probe.in)) =>
        probe.out.tx_type = IF InMigrationDays(probe.in.timestamp)
                            THEN "turnstile" ELSE "unknown_transparent"

\* ---- C30
\* Output i of the transaction is multisig-like.
MultisigLike(out) ==
    \/ out.type \in {"multisig", "scripthash"}
    \/ out.reqSigs > 1
    \/ \E x \in SeqToSet(out.addresses) : StartsWithB(x)

\* C30: swap address of a start leg. When classify_tx, given the output
\* addresses of the transaction, returns atomic_swap with phase=start for a
\* transaction that has a multisig-like output, the swap address it returns
\* is not empty and is an address of a multisig-like output of the
\* transaction.
C30_StartSwapAddress ==
    (/\ probe.done
     /\ probe.in.vout_addrs = collect_vout_addresses(probe.in.tx)
     /\ probe.out.tx_type = "atomic_swap" /\ probe.out.phase = "start"
     /\ \E i \in 1..Len(probe.in.tx.vout) : MultisigLike(probe.in.tx.vout[i]))
    => /\ probe.out.swap_addr # Null
       /\ \E i \in 1..Len(probe.in.tx.vout) :
             /\ MultisigLike(probe.in.tx.vout[i])
             /\ probe.out.swap_addr \in SeqToSet(probe.in.tx.vout[i].addresses)

SessionStates(h, i) ==
    TxsDone(ScanDone({FreshState}, 1, h - 1), SubSeq(chain[h].tx, 1, i - 1), 1, h,
            chain[h].time)

\* The known-miner sets that session consults for entry i of block h, and
\* the categories it assigns to the entry.
SessionMiners(h, i) == {s.miner_addresses : s \in SessionStates(h, i)}

SessionCategories(h, i) ==
    {ProcessTx(s, chain[h].tx[i], h, chain[h].time, {}, ord).last.tx_type :
        s \in SessionStates(h, i), ord \in IterOrders}

\* C32: session-independent classification. When a transaction of height h
\* is stored and the heights 1..h-1 are checkpointed (by this run or by
\* earlier ones), the known-miner set consulted for it and the category
\* assigned to it are those of one uninterrupted session over 1..h.
C32_SessionIndependent ==
    [][(TxStored /\ last'.txid # Null /\ (1..(height - 1)) \subseteq Heights(wk)) =>
          /\ miner_addresses \in SessionMiners(height, idx)
          /\ last'.tx_type \in SessionCategories(height, idx)
      ]_vars

\* ---- C33
\* The category tables, the atomic swaps among them.
CategoryTables(T) ==
    << T.coinbase_txs, T.coinbase_shielding_txs, T.dpow_txs, T.atomic_swap_txs,
       T.turnstile_txs, T.unknown_transparent_txs, T.unknown_txs, T.shielded_txs >>

\* The tables that have a row keyed by the txid, and the swap rows the txid
\* completed.
KeyedIn(T, txid) ==
    {i \in 1..Len(CategoryTables(T)) : \E r \in CategoryTables(T)[i] : r.txid = txid}

CompletedBy(T, txid) == {r \in T.atomic_swap_txs : r.complete_txid = txid}

\* C33: one record per transaction. In the committed database every txid is
\* the key of a row in at most one category table, and every transaction of
\* a checkpointed block is accounted for exactly once: as the key of one
\* category row, or as the complete_txid of one atomic-swap row.
C33_OneRecordPerTx ==
    \A h \in 1..MaxHeight : \A i \in 1..Len(chain[h].tx) :
        /\ Cardinality(KeyedIn(db, chain[h].tx[i].txid)) <= 1
        /\ h \in Heights(db) =>
              Cardinality(KeyedIn(db, chain[h].tx[i].txid))
                + Cardinality(CompletedBy(db, chain[h].tx[i].txid)) = 1

\* ---------------------------------------------------------------------------
\* C34. No gaps below the resume point: after any sequence of scan runs on an
\* initially empty database, with explicit or defaulted start and end heights
\* and any failures, every height from 1 up to the highest checkpointed height
\* is in the processed-heights ledger of the committed database.
Gapless(T) == \A h \in 1..last_processed_block(T) : h \in Heights(T)

C34_NoGapsBelowResume == Gapless(db)

\* ---------------------------------------------------------------------------
\* C35. Miner row ordering: in every reachable state every miner row has
\* first_seen <= last_seen and tx_count >= 1; first_seen never changes after
\* the row is created, and tx_count and total_amount never decrease. The rows
\* are those of the committed database and of the scanner's connection; the
\* steps are those of the committed database and, when a transaction is
\* stored, those of the connection.
MinerRowOrdered(T) == \A r \in T.miners : r.first_seen <= r.last_seen /\ r.tx_count >= 1

MinerRowsGrow(T, U) == \A r \in T.miners : \E s \in U.miners : s.address = r.address /\ s.first_seen = r.first_seen /\ s.tx_count >= r.tx_count /\ s.total_amount >= r.total_amount

C35_MinerRowOrdering ==
    [][/\ MinerRowOrdered(db') /\ MinerRowOrdered(wk')
       /\ MinerRowsGrow(db, db')
       /\ TxStored => MinerRowsGrow(wk, wk')]_vars

====
